---- MODULE Spec2Model ----
(***************************************************************************)
(* NijiMarket backend: the authentication / authorization chain and the    *)
(* marketplace resources behind it.                                        *)
(*                                                                         *)
(*   app/api/auth.py          register, login, refresh, me, logout,        *)
(*                            toggle-active                                *)
(*   app/core/dependencies.py get_current_user, get_current_active_user,   *)
(*                            require_role, require_roles and instances    *)
(*   app/core/config.py       ACCESS_TOKEN_EXPIRE_MINUTES                  *)
(*   app/api/categories.py    get, create, update, delete                  *)
(*   app/api/markets.py       get, create, delete                          *)
(*   app/api/vendors.py       create, update, verify, unverify             *)
(*   app/api/products.py      create, update, delete, upload image         *)
(*   app/core/file_handler.py save_image, delete_image                     *)
(*   app/models/*.py          the columns' unique / nullable / foreign-key *)
(*                            declarations                                 *)
(*   app/core/auth.py         (not in the source tree) the credential      *)
(*                            codec, modelled from spec.md section 4.1     *)
(*                                                                         *)
(* The state is the database tables, the uploads directory, the wall       *)
(* clock, the tokens the service has handed out so far, the requests in    *)
(* flight and the HTTP response of the last answered request.              *)
(***************************************************************************)
EXTENDS Integers, Sequences, FiniteSets, TLC

VARIABLES
    users,        \* the users table: row i is the user with id i
    now,          \* wall clock, in minutes
    issued,       \* history: every token the service has emitted, with its issue time
    acceptAtExp,  \* the JWT library's verdict at now = exp exactly (fixed per run)
    last,         \* the request being answered and its HTTP response; NoRequest
                  \* once the response is delivered
    markets,      \* the markets table: id -> row
    vendors,      \* the vendors table: id -> row
    categories,   \* the categories table: id -> row
    products,     \* the products table: id -> row
    seq,          \* the tables' id sequences and the count of generated file names
    files,        \* the uploads directory: the set of stored paths
    pending       \* requests whose handler has read the database and has not
                  \* committed yet: worker -> request

\* What the marketplace endpoints read and write.
marketVars == <<markets, vendors, categories, products, seq, files>>

vars == <<users, now, issued, acceptAtExp, last, marketVars, pending>>

----------------------------------------------------------------------------
(* Bounds and input sets *)

MaxUsers == 2
MaxIssueTime == 1
MaxIssued == 2
MaxMarkets == 2
MaxCategories == 2
MaxProducts == 1
MaxUploads == 1

Emails == {"a@x.com", "b@x.com"}
\* Passwords a client registers with / tries at login (both pass the
\* 8-character validator of UserCreate).
RegisterPasswords == {"password1"}
Passwords == {"password1", "password2"}

\* Python's None / SQL NULL.
None == "None"

\* Phones a client registers with: none, the empty string (which passes
\* validate_phone), and a number of ten digits.
Phones == {None, "", "0312345678"}

\* models/user.py UserRole
UserRole == {"admin", "vendor", "consumer"}

\* config.py
ACCESS_TOKEN_EXPIRE_MINUTES == 30
\* core/auth.py is not in the tree; spec.md 4.1 only says the refresh expiry
\* is "longer/independent".
REFRESH_TOKEN_EXPIRE_MINUTES == 60

\* The instants at which requests arrive: the issue window, and the minutes
\* around each expiry of a token issued in that window.
Around(ttl) == (ttl - 1)..(ttl + MaxIssueTime + 1)
Instants == (0..MaxIssueTime) \cup Around(ACCESS_TOKEN_EXPIRE_MINUTES)
                \cup Around(REFRESH_TOKEN_EXPIRE_MINUTES)

----------------------------------------------------------------------------
(* Credential codec: app/core/auth.py, modelled from spec.md 4.1 *)

\* hash(password) -> digest: one-way; the digest is never the plaintext.
get_password_hash(password) == [alg |-> "bcrypt", of |-> password]

verify_password(password, digest) == digest.of = password

\* issue_access(claims, ttl_minutes): signs the claims plus exp = now + ttl.
create_access_token(data, expires_delta) ==
    [kind |-> "access", signed |-> TRUE,
     claims |-> data @@ [exp |-> now + expires_delta]]

\* issue_refresh(claims): same claim shape, same key, its own expiry.
create_refresh_token(data) ==
    [kind |-> "refresh", signed |-> TRUE,
     claims |-> data @@ [exp |-> now + REFRESH_TOKEN_EXPIRE_MINUTES]]

\* expired-by-clock; at now = exp the verdict is the library's.
Expired(exp) == now > exp \/ (now = exp /\ ~acceptAtExp)

\* decode: fails on bad signature, malformed payload (no exp), expired, or
\* (spec.md section 8) a token of the other kind.
decode_token(token, kind) ==
    IF /\ token.signed
       /\ token.kind = kind
       /\ "exp" \in DOMAIN token.claims
       /\ ~Expired(token.claims.exp)
    THEN [valid |-> TRUE, payload |-> token.claims]
    ELSE [valid |-> FALSE, payload |-> <<>>]

decode_access_token(token) == decode_token(token, "access")

decode_refresh_token(token) == decode_token(token, "refresh")

----------------------------------------------------------------------------
(* Database helpers *)

UserIds == 1..Len(users)

\* db.query(User).filter(User.id == user_id).first(); 0 stands for None.
\* A payload without user_id gives filter(User.id == None): no row.
UserById(payload) ==
    IF "user_id" \in DOMAIN payload /\ payload.user_id \in UserIds
    THEN payload.user_id ELSE 0

\* db.query(User).filter(User.email == email).first(); 0 stands for None.
UserByEmail(email) ==
    IF \E i \in UserIds : users[i].email = email
    THEN CHOOSE i \in UserIds : users[i].email = email
    ELSE 0

Range(f) == {f[i] : i \in DOMAIN f}

\* Python truthiness of an optional string.
Falsy(v) == v \in {None, ""}

\* A table other than users is a function from the ids in use to rows; ids
\* come from a sequence and are not handed out twice.
EmptyTable == [id \in {} |-> None]
Insert(table, id, row) == [i \in DOMAIN table \cup {id} |->
                             IF i = id THEN row ELSE table[i]]
Delete(table, id) == [i \in DOMAIN table \ {id} |-> table[i]]

\* The database and the uploads directory as a handler finds them.
DB == [markets |-> markets, vendors |-> vendors, categories |-> categories,
       products |-> products, seq |-> seq, files |-> files]

\* An exception no handler catches: the application registers no exception
\* handler, so the framework answers 500 and the session's transaction is
\* rolled back.
InternalServerError == [status |-> 500, detail |-> <<"Internal Server Error">>,
                        www |-> FALSE, user |-> 0, body |-> <<>>]

\* An HTTP response. detail: the fragments the code joins into the message.
\* www: the WWW-Authenticate: Bearer header is present.
\* user: the id of the user a dependency resolved (0 when it failed).
Response(status, detail, www, user, body) ==
    [status |-> status, detail |-> detail, www |-> www, user |-> user,
     body |-> body]

NoBody == <<>>

----------------------------------------------------------------------------
(* app/core/dependencies.py *)

credentials_exception ==
    Response(401, <<"Could not validate credentials">>, TRUE, 0, NoBody)

\* Faulty variant: only the newest access token issued to a user is honoured.
get_current_user_newest_only(token) ==
    LET d == decode_access_token(token)
        uid == UserById(d.payload)
        superseded == \E i \in issued :
                         /\ i.token.kind = "access"
                         /\ i.token.claims.user_id = uid
                         /\ i.token.claims.exp > d.payload.exp
    IN  IF ~d.valid THEN credentials_exception
        ELSE IF "sub" \notin DOMAIN d.payload \/ "user_id" \notin DOMAIN d.payload
             THEN credentials_exception
        ELSE IF uid = 0 THEN credentials_exception
        ELSE IF superseded THEN credentials_exception
        ELSE IF ~users[uid].is_active
             THEN Response(400, <<"Inactive user">>, FALSE, 0, NoBody)
        ELSE Response(200, <<>>, FALSE, uid, NoBody)

\* Faulty variant: the missing-claim check is left out.
get_current_user_no_claim_check(token) ==
    LET d == decode_access_token(token)
        uid == UserById(d.payload)
    IN  IF ~d.valid THEN credentials_exception
        ELSE IF uid = 0 THEN credentials_exception
        ELSE IF ~users[uid].is_active
             THEN Response(400, <<"Inactive user">>, FALSE, 0, NoBody)
        ELSE Response(200, <<>>, FALSE, uid, NoBody)

\* Faulty variant: a disabled account is reported as a bad credential.
get_current_user_inactive401(token) ==
    LET d == decode_access_token(token)
        uid == UserById(d.payload)
    IN  IF ~d.valid THEN credentials_exception
        ELSE IF "sub" \notin DOMAIN d.payload \/ "user_id" \notin DOMAIN d.payload
             THEN credentials_exception
        ELSE IF uid = 0 THEN credentials_exception
        ELSE IF ~users[uid].is_active THEN credentials_exception
        ELSE Response(200, <<>>, FALSE, uid, NoBody)

get_current_user(token) ==
    LET d == decode_access_token(token)
        uid == UserById(d.payload)
    IN  IF ~d.valid THEN credentials_exception
        ELSE IF "sub" \notin DOMAIN d.payload \/ "user_id" \notin DOMAIN d.payload
             THEN credentials_exception
        ELSE IF uid = 0 THEN credentials_exception
        ELSE IF ~users[uid].is_active
             THEN Response(400, <<"Inactive user">>, FALSE, 0, NoBody)
        ELSE Response(200, <<>>, FALSE, uid, NoBody)

get_current_active_user(token) ==
    LET r == get_current_user(token)
    IN  IF r.status # 200 THEN r
        ELSE IF ~users[r.user].is_active
             THEN Response(400, <<"Inactive user">>, FALSE, 0, NoBody)
        ELSE r

\* Faulty variant: the gate trusts the role claim of the token, not the stored row.
require_role_token_claim(required_role, token) ==
    LET r == get_current_active_user(token)
    IN  IF r.status # 200 THEN r
        ELSE IF token.claims.role # required_role
             THEN Response(403, <<"Operation requires ", required_role, " role">>,
                           FALSE, 0, NoBody)
        ELSE r

require_role(required_role, token) ==
    LET r == get_current_active_user(token)
    IN  IF r.status # 200 THEN r
        ELSE IF users[r.user].role # required_role
             THEN Response(403, <<"Operation requires ", required_role, " role">>,
                           FALSE, 0, NoBody)
        ELSE r

require_roles(required_roles, token) ==
    LET r == get_current_active_user(token)
    IN  IF r.status # 200 THEN r
        ELSE IF users[r.user].role \notin Range(required_roles)
             THEN Response(403, <<"Operation requires one of these roles: ">> \o required_roles,
                           FALSE, 0, NoBody)
        ELSE r

require_admin(token) == require_role("admin", token)

require_vendor(token) == require_role("vendor", token)

require_consumer(token) == require_role("consumer", token)

require_vendor_or_admin(token) == require_roles(<<"vendor", "admin">>, token)

----------------------------------------------------------------------------
(* app/api/auth.py: the handlers as functions of the request and the state *)

\* What a handler returns: the HTTP response and the users table it commits.
Result(resp, db) == [resp |-> resp, db |-> db]

\* Faulty variant: every token is issued with the default role.
UserClaims_default_role(uid) ==
    [sub |-> users[uid].email, user_id |-> uid, role |-> "consumer"]

UserClaims(uid) ==
    [sub |-> users[uid].email, user_id |-> uid, role |-> users[uid].role]

\* The Token response body of the token-issuing endpoints.
Token(access_token, refresh_token) ==
    [access_token |-> access_token, refresh_token |-> refresh_token,
     token_type |-> "bearer",
     expires_in |-> ACCESS_TOKEN_EXPIRE_MINUTES * 60]

\* schemas/user.py UserCreate, with the fields the handlers read.
UserCreate(email, password, phone, role) ==
    [email |-> email, password |-> password, phone |-> phone, role |-> role]

\* register_user, first half: the two lookups.  <<>> when both pass.
register_user_lookup(user_data) ==
    IF UserByEmail(user_data.email) # 0
    THEN Response(400, <<"Email already registered">>, FALSE, 0, NoBody)
    ELSE IF /\ ~Falsy(user_data.phone)
            /\ \E i \in UserIds : users[i].phone = user_data.phone
         THEN Response(400, <<"Phone number already registered">>, FALSE, 0, NoBody)
    ELSE <<>>

\* register_user, second half: the insert and its commit.  users.email and
\* users.phone are unique columns (NULLs do not collide); a violation raises
\* IntegrityError at commit, which the handler does not catch.
register_user_insert(user_data) ==
    LET db_user == [email |-> user_data.email,
                    hashed_password |-> get_password_hash(user_data.password),
                    phone |-> user_data.phone,
                    role |-> user_data.role,
                    is_active |-> TRUE]
    IN  IF \E i \in UserIds :
               \/ users[i].email = db_user.email
               \/ (db_user.phone # None /\ users[i].phone = db_user.phone)
        THEN Result(InternalServerError, users)
        ELSE Result(Response(201, <<>>, FALSE, Len(users) + 1, db_user),
                    Append(users, db_user))

register_user(user_data) ==
    LET r == register_user_lookup(user_data)
    IN  IF r # <<>> THEN Result(r, users) ELSE register_user_insert(user_data)

\* Faulty variant: the access token is issued without the configured lifetime
\* (a 15-minute default instead).
login_user_default_ttl(email, password) ==
    LET uid == UserByEmail(email)
    IN  IF uid = 0 \/ ~verify_password(password, users[uid].hashed_password)
        THEN Response(401, <<"Incorrect email or password">>, TRUE, 0, NoBody)
        ELSE IF ~users[uid].is_active
             THEN Response(400, <<"Inactive user account">>, FALSE, 0, NoBody)
        ELSE Response(200, <<>>, FALSE, uid,
                      Token(create_access_token(UserClaims(uid),
                                                ACCESS_TOKEN_EXPIRE_MINUTES \div 2),
                            create_refresh_token(UserClaims(uid))))

\* Faulty variant: the activity check comes before the password check.
login_user_active_first(email, password) ==
    LET uid == UserByEmail(email)
    IN  IF uid = 0
        THEN Response(401, <<"Incorrect email or password">>, TRUE, 0, NoBody)
        ELSE IF ~users[uid].is_active
             THEN Response(400, <<"Inactive user account">>, FALSE, 0, NoBody)
        ELSE IF ~verify_password(password, users[uid].hashed_password)
             THEN Response(401, <<"Incorrect email or password">>, TRUE, 0, NoBody)
        ELSE Response(200, <<>>, FALSE, uid,
                      Token(create_access_token(UserClaims(uid),
                                                ACCESS_TOKEN_EXPIRE_MINUTES),
                            create_refresh_token(UserClaims(uid))))

\* Faulty variant: an unknown email gets its own message.
login_user_names_unknown(email, password) ==
    LET uid == UserByEmail(email)
    IN  IF uid = 0
        THEN Response(401, <<"User not found">>, TRUE, 0, NoBody)
        ELSE IF ~verify_password(password, users[uid].hashed_password)
             THEN Response(401, <<"Incorrect email or password">>, TRUE, 0, NoBody)
        ELSE IF ~users[uid].is_active
             THEN Response(400, <<"Inactive user account">>, FALSE, 0, NoBody)
        ELSE Response(200, <<>>, FALSE, uid,
                      Token(create_access_token(UserClaims(uid),
                                                ACCESS_TOKEN_EXPIRE_MINUTES),
                            create_refresh_token(UserClaims(uid))))

login_user(email, password) ==
    LET uid == UserByEmail(email)
    IN  IF uid = 0 \/ ~verify_password(password, users[uid].hashed_password)
        THEN Response(401, <<"Incorrect email or password">>, TRUE, 0, NoBody)
        ELSE IF ~users[uid].is_active
             THEN Response(400, <<"Inactive user account">>, FALSE, 0, NoBody)
        ELSE Response(200, <<>>, FALSE, uid,
                      Token(create_access_token(UserClaims(uid),
                                                ACCESS_TOKEN_EXPIRE_MINUTES),
                            create_refresh_token(UserClaims(uid))))

\* Faulty variant: an inactive account is reported as the resolver reports it.
refresh_access_token_inactive400(refresh_token) ==
    LET d == decode_refresh_token(refresh_token)
        uid == UserById(d.payload)
    IN  IF ~d.valid
        THEN Response(401, <<"Invalid refresh token">>, TRUE, 0, NoBody)
        ELSE IF uid = 0
             THEN Response(401, <<"User not found or inactive">>, FALSE, 0, NoBody)
        ELSE IF ~users[uid].is_active
             THEN Response(400, <<"Inactive user">>, FALSE, 0, NoBody)
        ELSE Response(200, <<>>, FALSE, uid,
                      Token(create_access_token(UserClaims(uid),
                                                ACCESS_TOKEN_EXPIRE_MINUTES),
                            create_refresh_token(UserClaims(uid))))

\* Faulty variant: the new tokens copy the claims of the presented token.
refresh_access_token_copies_claims(refresh_token) ==
    LET d == decode_refresh_token(refresh_token)
        uid == UserById(d.payload)
        data == [k \in DOMAIN d.payload \ {"exp"} |-> d.payload[k]]
    IN  IF ~d.valid
        THEN Response(401, <<"Invalid refresh token">>, TRUE, 0, NoBody)
        ELSE IF uid = 0 \/ ~users[uid].is_active
             THEN Response(401, <<"User not found or inactive">>, FALSE, 0, NoBody)
        ELSE Response(200, <<>>, FALSE, uid,
                      Token(create_access_token(data, ACCESS_TOKEN_EXPIRE_MINUTES),
                            create_refresh_token(data)))

\* Faulty variant: the handler decodes with the access-token decoder.
refresh_access_token_access_decoder(refresh_token) ==
    LET d == decode_access_token(refresh_token)
        uid == UserById(d.payload)
    IN  IF ~d.valid
        THEN Response(401, <<"Invalid refresh token">>, TRUE, 0, NoBody)
        ELSE IF uid = 0 \/ ~users[uid].is_active
             THEN Response(401, <<"User not found or inactive">>, FALSE, 0, NoBody)
        ELSE Response(200, <<>>, FALSE, uid,
                      Token(create_access_token(UserClaims(uid),
                                                ACCESS_TOKEN_EXPIRE_MINUTES),
                            create_refresh_token(UserClaims(uid))))

refresh_access_token(refresh_token) ==
    LET d == decode_refresh_token(refresh_token)
        uid == UserById(d.payload)
    IN  IF ~d.valid
        THEN Response(401, <<"Invalid refresh token">>, TRUE, 0, NoBody)
        ELSE IF uid = 0 \/ ~users[uid].is_active
             THEN Response(401, <<"User not found or inactive">>, FALSE, 0, NoBody)
        ELSE Response(200, <<>>, FALSE, uid,
                      Token(create_access_token(UserClaims(uid),
                                                ACCESS_TOKEN_EXPIRE_MINUTES),
                            create_refresh_token(UserClaims(uid))))

get_current_user_profile(token) == get_current_active_user(token)

\* Faulty variant: the current password is not verified.
change_password_unverified(token, current_password, new_password) ==
    LET r == get_current_active_user(token)
    IN  IF r.status # 200 THEN Result(r, users)
        ELSE Result(Response(200, <<"Password changed successfully">>, FALSE,
                             r.user, NoBody),
                    [users EXCEPT ![r.user].hashed_password =
                        get_password_hash(new_password)])

\* Faulty variant: the row is rebuilt from the model's defaults around the
\* new hash, so the role falls back to consumer.
change_password_rebuilds_row(token, current_password, new_password) ==
    LET r == get_current_active_user(token)
    IN  IF r.status # 200 THEN Result(r, users)
        ELSE IF ~verify_password(current_password, users[r.user].hashed_password)
             THEN Result(Response(400, <<"Incorrect current password">>, FALSE,
                                  r.user, NoBody), users)
        ELSE Result(Response(200, <<"Password changed successfully">>, FALSE,
                             r.user, NoBody),
                    [users EXCEPT ![r.user] =
                        [@ EXCEPT !.hashed_password = get_password_hash(new_password),
                                  !.role = "consumer"]])

change_password(token, current_password, new_password) ==
    LET r == get_current_active_user(token)
    IN  IF r.status # 200 THEN Result(r, users)
        ELSE IF ~verify_password(current_password, users[r.user].hashed_password)
             THEN Result(Response(400, <<"Incorrect current password">>, FALSE,
                                  r.user, NoBody), users)
        ELSE Result(Response(200, <<"Password changed successfully">>, FALSE,
                             r.user, NoBody),
                    [users EXCEPT ![r.user].hashed_password =
                        get_password_hash(new_password)])

logout_user(token) ==
    LET r == get_current_active_user(token)
    IN  IF r.status # 200 THEN r
        ELSE Response(200, <<"Successfully logged out">>, FALSE, r.user, NoBody)

toggle_user_active_status(token, user_id) ==
    LET r == require_admin(token)
    IN  IF r.status # 200 THEN Result(r, users)
        ELSE IF user_id \notin UserIds
             THEN Result(Response(404, <<"User not found">>, FALSE, r.user, NoBody), users)
        ELSE LET db == [users EXCEPT ![user_id].is_active = ~users[user_id].is_active]
             IN  Result(Response(200,
                                 <<"User ",
                                   IF db[user_id].is_active THEN "activated"
                                                            ELSE "deactivated",
                                   " successfully">>,
                                 FALSE, r.user, NoBody),
                        db)

----------------------------------------------------------------------------
(* The constraints the models declare and the database enforces at commit *)

\* models/product.py: categories.name is unique.
CategoryConstraints(db) ==
    \A c, d \in DOMAIN db.categories :
        c # d => db.categories[c].name # db.categories[d].name

\* models/vendor.py: user_id and market_id are foreign keys; user_id is not
\* declared unique.
VendorConstraints(db) ==
    \A v \in DOMAIN db.vendors :
        /\ db.vendors[v].user_id \in UserIds
        /\ db.vendors[v].market_id \in DOMAIN db.markets

\* Faulty variant: products.category_id is not a foreign key.
ProductConstraints_no_category_key(db) ==
    \A p \in DOMAIN db.products :
        /\ "vendor_id" \in DOMAIN db.products[p]
        /\ db.products[p].vendor_id \in DOMAIN db.vendors

\* models/product.py: vendor_id and category_id are foreign keys, nullable=False.
\* A column the handler gave no value is NULL.
ProductConstraints(db) ==
    \A p \in DOMAIN db.products :
        /\ "vendor_id" \in DOMAIN db.products[p]
        /\ db.products[p].vendor_id \in DOMAIN db.vendors
        /\ db.products[p].category_id \in DOMAIN db.categories

\* What a call of the coroutine function save_image without await evaluates
\* to: a coroutine object, whose body has not run and which is no file name.
Coroutine == -1

\* markets.main_image is a String column: the driver binds a string or NULL
\* at the flush and raises on any other object.
MarketConstraints(db) ==
    \A m \in DOMAIN db.markets : db.markets[m].main_image # Coroutine

Constraints(db) ==
    /\ CategoryConstraints(db)
    /\ VendorConstraints(db)
    /\ ProductConstraints(db)
    /\ MarketConstraints(db)

\* db.commit(): the new rows are stored when they satisfy the constraints;
\* otherwise IntegrityError is raised, which no handler catches, and the
\* tables stay as they were (files already written or removed stay so).
Commit(resp, db) ==
    IF Constraints(db) THEN Result(resp, db)
    ELSE Result(InternalServerError, [DB EXCEPT !.files = db.files])

\* setattr over data.dict(exclude_unset=True): the fields the request sets.
Patch(row, data) ==
    [f \in DOMAIN row |-> IF f \in DOMAIN data THEN data[f] ELSE row[f]]

----------------------------------------------------------------------------
(* app/api/categories.py *)

ProductCount(category_id) ==
    Cardinality({p \in DOMAIN products : products[p].category_id = category_id})

CategoryResponse(id, row, product_count) ==
    [id |-> id, name |-> row.name, is_active |-> row.is_active,
     product_count |-> product_count]

get_category(category_id) ==
    IF category_id \notin DOMAIN categories
    THEN Response(404, <<"Category not found">>, FALSE, 0, NoBody)
    ELSE Response(200, <<>>, FALSE, 0,
                  CategoryResponse(category_id, categories[category_id],
                                   ProductCount(category_id)))

create_category(token, category_data) ==
    LET r == require_admin(token)
        id == seq.categories + 1
        db_category == [name |-> category_data.name, is_active |-> TRUE]
    IN  IF r.status # 200 THEN Result(r, DB)
        ELSE IF \E c \in DOMAIN categories : categories[c].name = category_data.name
             THEN Result(Response(400, <<"Category with this name already exists">>,
                                  FALSE, r.user, NoBody), DB)
        ELSE Commit(Response(201, <<>>, FALSE, r.user,
                             CategoryResponse(id, db_category, 0)),
                    [DB EXCEPT !.categories = Insert(categories, id, db_category),
                               !.seq.categories = id])

update_category(token, category_id, category_data) ==
    LET r == require_admin(token)
    IN  IF r.status # 200 THEN Result(r, DB)
        ELSE IF category_id \notin DOMAIN categories
             THEN Result(Response(404, <<"Category not found">>, FALSE, r.user, NoBody),
                         DB)
        ELSE LET category == Patch(categories[category_id], category_data)
             IN  Commit(Response(200, <<>>, FALSE, r.user,
                                 CategoryResponse(category_id, category,
                                                  ProductCount(category_id))),
                        [DB EXCEPT !.categories[category_id] = category])

\* Faulty variant: the category is deleted whether or not products use it.
delete_category_unchecked(token, category_id) ==
    LET r == require_admin(token)
    IN  IF r.status # 200 THEN Result(r, DB)
        ELSE IF category_id \notin DOMAIN categories
             THEN Result(Response(404, <<"Category not found">>, FALSE, r.user, NoBody),
                         DB)
        ELSE Result(Response(200, <<"Category deleted successfully">>, FALSE, r.user,
                             NoBody),
                    [DB EXCEPT !.categories = Delete(categories, category_id)])

delete_category(token, category_id) ==
    LET r == require_admin(token)
    IN  IF r.status # 200 THEN Result(r, DB)
        ELSE IF category_id \notin DOMAIN categories
             THEN Result(Response(404, <<"Category not found">>, FALSE, r.user, NoBody),
                         DB)
        ELSE IF ProductCount(category_id) > 0
             THEN Result(Response(400, <<"Cannot delete category with existing products">>,
                                  FALSE, r.user, NoBody), DB)
        ELSE Commit(Response(200, <<"Category deleted successfully">>, FALSE, r.user,
                             NoBody),
                    [DB EXCEPT !.categories = Delete(categories, category_id)])

----------------------------------------------------------------------------
(* app/core/file_handler.py *)

ALLOWED_EXTENSIONS == {".jpg", ".jpeg", ".png", ".gif", ".webp"}
MAX_FILE_SIZE == 5 * 1024 * 1024

\* An upload: the content type split at its first "/" (<<>> when the part
\* has none, one element when it has no "/"), the suffix of the file name
\* ("" when it has none), the length of the content, whether PIL can open
\* the content, and whether the disk takes the write.
UploadFile(content_type, suffix, size, decodes, disk_ok) ==
    [content_type |-> content_type, suffix |-> suffix, size |-> size,
     decodes |-> decodes, disk_ok |-> disk_ok]

\* A stored path under UPLOAD_DIR: the original <name>, or thumb_<name>.
\* generate_filename draws uuid4 names; the model numbers them.
Path(subdir, filename, thumb) == [subdir |-> subdir, name |-> filename, thumb |-> thumb]

\* str.lower() on the suffixes of the model.
lower(s) ==
    CASE s = ".JPG" -> ".jpg"
      [] s = ".Png" -> ".png"
      [] OTHER -> s

\* Faulty variant: the extension is not looked at.
validate_image_file_by_type_only(file) ==
    ~(file.content_type = <<>>
      \/ ~(Len(file.content_type) >= 2 /\ file.content_type[1] = "image"))

validate_image_file(file) ==
    IF \/ file.content_type = <<>>
       \/ ~(Len(file.content_type) >= 2 /\ file.content_type[1] = "image")
    THEN FALSE
    ELSE lower(file.suffix) \in ALLOWED_EXTENSIONS

\* create_thumbnail swallows its own exceptions: a content PIL cannot open
\* leaves no thumbnail and raises nothing.
create_thumbnail(file, subdir, filename) ==
    IF file.decodes THEN {Path(subdir, filename, TRUE)} ELSE {}

\* Returns the error response (<<>> when none), the file name and the
\* database and directory afterwards.
save_image(file, subdir, db) ==
    LET filename == db.seq.files + 1
    IN  IF ~validate_image_file(file)
        THEN [error |-> Response(400, <<"Invalid image file">>, FALSE, 0, NoBody),
              filename |-> 0, db |-> db]
        ELSE IF file.size > MAX_FILE_SIZE
             THEN [error |-> Response(400, <<"File too large">>, FALSE, 0, NoBody),
                   filename |-> 0, db |-> db]
        ELSE IF ~file.disk_ok
             THEN [error |-> Response(500, <<"Failed to save image: ", "OSError">>,
                                      FALSE, 0, NoBody),
                   filename |-> 0, db |-> db]
        ELSE [error |-> <<>>, filename |-> filename,
              db |-> [db EXCEPT !.seq.files = filename,
                                !.files = @ \cup {Path(subdir, filename, FALSE)}
                                            \cup create_thumbnail(file, subdir, filename)]]

\* The unlink that raises, if any: the file system may refuse to remove a
\* file that exists (a path that does not exist is never unlinked).
UnlinkFaults == {"none", "original", "thumb"}

\* Faulty variant: the thumbnail is left where it is.
delete_image_keeps_thumbnail(filename, subdir, db, fault) ==
    [ok |-> TRUE, db |-> [db EXCEPT !.files = @ \ {Path(subdir, filename, FALSE)}]]

\* Returns what the function returns (ok) and the directory afterwards.  An
\* exception of the first unlink leaves both files, one of the second leaves
\* the thumbnail; either is swallowed and answered False.
delete_image(filename, subdir, db, fault) ==
    LET file_path == Path(subdir, filename, FALSE)
        thumb_path == Path(subdir, filename, TRUE)
    IN  IF fault = "original" /\ file_path \in db.files
        THEN [ok |-> FALSE, db |-> db]
        ELSE IF fault = "thumb" /\ thumb_path \in db.files
             THEN [ok |-> FALSE, db |-> [db EXCEPT !.files = @ \ {file_path}]]
        ELSE [ok |-> TRUE, db |-> [db EXCEPT !.files = @ \ {file_path, thumb_path}]]

----------------------------------------------------------------------------
(* app/api/products.py *)

\* db.query(Vendor).filter(Vendor.user_id == user_id).first(): 0 when the
\* user has no profile, the oldest profile when there are several.
VendorOf(user_id) ==
    LET mine == {v \in DOMAIN vendors : vendors[v].user_id = user_id}
    IN  IF mine = {} THEN 0 ELSE CHOOSE v \in mine : \A u \in mine : v <= u

\* schemas/product.py, with the fields the handlers read.
ProductCreate(name, category_id) == [name |-> name, category_id |-> category_id]

\* Faulty variant: a vendor with any profile passes the ownership test.
product_permission_any_vendor(user_id, product, this, these) ==
    IF users[user_id].role = "vendor"
    THEN IF VendorOf(user_id) = 0
         THEN Response(403, <<"Not authorized to ", this>>, FALSE, user_id, NoBody)
         ELSE <<>>
    ELSE IF users[user_id].role # "admin"
         THEN Response(403, <<"Not authorized to ", these>>, FALSE, user_id, NoBody)
    ELSE <<>>

\* The "Check permissions" block of update, delete and upload-image: <<>>
\* when the caller may go on.
product_permission(user_id, product, this, these) ==
    IF users[user_id].role = "vendor"
    THEN IF VendorOf(user_id) = 0 \/ product.vendor_id # VendorOf(user_id)
         THEN Response(403, <<"Not authorized to ", this>>, FALSE, user_id, NoBody)
         ELSE <<>>
    ELSE IF users[user_id].role # "admin"
         THEN Response(403, <<"Not authorized to ", these>>, FALSE, user_id, NoBody)
    ELSE <<>>

create_product(token, product_data) ==
    LET r == get_current_active_user(token)
        vendor == IF users[r.user].role = "vendor" THEN VendorOf(r.user) ELSE 0
        product_dict == IF vendor # 0 THEN [vendor_id |-> vendor] @@ product_data
                        ELSE product_data
        db_product == product_dict @@ [main_image |-> 0]
        id == seq.products + 1
    IN  IF r.status # 200 THEN Result(r, DB)
        ELSE IF users[r.user].role = "vendor" /\ vendor = 0
             THEN Result(Response(400, <<"Vendor profile not found">>, FALSE, r.user,
                                  NoBody), DB)
        ELSE IF users[r.user].role \notin {"vendor", "admin"}
             THEN Result(Response(403, <<"Only vendors can create products">>, FALSE,
                                  r.user, NoBody), DB)
        ELSE IF product_data.category_id \notin DOMAIN categories
             THEN Result(Response(404, <<"Category not found">>, FALSE, r.user, NoBody),
                         DB)
        ELSE Commit(Response(201, <<>>, FALSE, r.user, [id |-> id] @@ db_product),
                    [DB EXCEPT !.products = Insert(products, id, db_product),
                               !.seq.products = id])

update_product(token, product_id, product_data) ==
    LET r == get_current_active_user(token)
        product == products[product_id]
        denied == product_permission(r.user, product, "update this product",
                                     "update products")
    IN  IF r.status # 200 THEN Result(r, DB)
        ELSE IF product_id \notin DOMAIN products
             THEN Result(Response(404, <<"Product not found">>, FALSE, r.user, NoBody),
                         DB)
        ELSE IF denied # <<>> THEN Result(denied, DB)
        ELSE IF /\ "category_id" \in DOMAIN product_data
                /\ product_data.category_id # 0
                /\ product_data.category_id # product.category_id
                /\ product_data.category_id \notin DOMAIN categories
             THEN Result(Response(404, <<"New category not found">>, FALSE, r.user,
                                  NoBody), DB)
        ELSE Commit(Response(200, <<>>, FALSE, r.user,
                             [id |-> product_id] @@ Patch(product, product_data)),
                    [DB EXCEPT !.products[product_id] = Patch(product, product_data)])

\* delete_image's result is not looked at.
delete_product(token, product_id, fault) ==
    LET r == get_current_active_user(token)
        product == products[product_id]
        denied == product_permission(r.user, product, "delete this product",
                                     "delete products")
        db1 == IF product.main_image # 0
               THEN delete_image(product.main_image, "products", DB, fault).db
               ELSE DB
    IN  IF r.status # 200 THEN Result(r, DB)
        ELSE IF product_id \notin DOMAIN products
             THEN Result(Response(404, <<"Product not found">>, FALSE, r.user, NoBody),
                         DB)
        ELSE IF denied # <<>> THEN Result(denied, DB)
        ELSE Commit(Response(200, <<"Product deleted successfully">>, FALSE, r.user,
                             NoBody),
                    [db1 EXCEPT !.products = Delete(products, product_id)])

upload_product_image(token, product_id, file, fault) ==
    LET r == get_current_active_user(token)
        product == products[product_id]
        denied == product_permission(r.user, product, "update this product",
                                     "update products")
        saved == save_image(file, "products", DB)
        db1 == IF product.main_image # 0
               THEN delete_image(product.main_image, "products", saved.db, fault).db
               ELSE saved.db
    IN  IF r.status # 200 THEN Result(r, DB)
        ELSE IF product_id \notin DOMAIN products
             THEN Result(Response(404, <<"Product not found">>, FALSE, r.user, NoBody),
                         DB)
        ELSE IF denied # <<>> THEN Result(denied, DB)
        ELSE IF saved.error # <<>> THEN Result(saved.error, saved.db)
        ELSE Commit(Response(200, <<"Image uploaded successfully">>, FALSE, r.user,
                             [filename |-> saved.filename]),
                    [db1 EXCEPT !.products[product_id].main_image = saved.filename])

----------------------------------------------------------------------------
(* app/api/markets.py *)

VendorCount(market_id) ==
    Cardinality({v \in DOMAIN vendors : vendors[v].market_id = market_id})

\* schemas/market.py, with the fields the handlers read.
MarketCreate(name, city) == [name |-> name, city |-> city]

MarketResponse(id, row, vendor_count) ==
    [id |-> id, name |-> row.name, city |-> row.city, is_active |-> row.is_active,
     main_image |-> row.main_image, vendor_count |-> vendor_count]

get_market(market_id) ==
    IF market_id \notin DOMAIN markets
    THEN Response(404, <<"Market not found">>, FALSE, 0, NoBody)
    ELSE Response(200, <<>>, FALSE, 0,
                  MarketResponse(market_id, markets[market_id], VendorCount(market_id)))

create_market(token, market_data) ==
    LET r == require_admin(token)
        id == seq.markets + 1
        db_market == market_data @@ [is_active |-> TRUE, main_image |-> 0]
    IN  IF r.status # 200 THEN Result(r, DB)
        ELSE IF \E m \in DOMAIN markets : /\ markets[m].name = market_data.name
                                          /\ markets[m].city = market_data.city
             THEN Result(Response(400, <<"Market with this name already exists in this city">>,
                                  FALSE, r.user, NoBody), DB)
        ELSE Commit(Response(201, <<>>, FALSE, r.user, MarketResponse(id, db_market, 0)),
                    [DB EXCEPT !.markets = Insert(markets, id, db_market),
                               !.seq.markets = id])

\* Faulty variant: the row is removed whether or not vendors sell there.
delete_market_always_hard(token, market_id) ==
    LET r == require_admin(token)
    IN  IF r.status # 200 THEN Result(r, DB)
        ELSE IF market_id \notin DOMAIN markets
             THEN Result(Response(404, <<"Market not found">>, FALSE, r.user, NoBody), DB)
        ELSE Result(Response(200, <<"Market deleted successfully">>, FALSE, r.user,
                             NoBody),
                    [DB EXCEPT !.markets = Delete(markets, market_id)])

delete_market(token, market_id) ==
    LET r == require_admin(token)
    IN  IF r.status # 200 THEN Result(r, DB)
        ELSE IF market_id \notin DOMAIN markets
             THEN Result(Response(404, <<"Market not found">>, FALSE, r.user, NoBody), DB)
        ELSE IF VendorCount(market_id) > 0
             THEN Commit(Response(200, <<"Market deactivated successfully">>, FALSE,
                                  r.user, NoBody),
                         [DB EXCEPT !.markets[market_id].is_active = FALSE])
        ELSE Commit(Response(200, <<"Market deleted successfully">>, FALSE, r.user,
                             NoBody),
                    [DB EXCEPT !.markets = Delete(markets, market_id)])

----------------------------------------------------------------------------
(* app/api/vendors.py *)

\* schemas/vendor.py VendorCreate, with the fields the handlers read.
VendorCreate(business_name, market_id) ==
    [business_name |-> business_name, market_id |-> market_id]

\* Faulty variant: the update schema lets is_verified through.
VendorUpdate_with_is_verified(body) ==
    [f \in DOMAIN body \cap {"business_name", "market_id", "is_verified"} |-> body[f]]

\* schemas/vendor.py VendorUpdate: the fields of the body the schema
\* declares; pydantic drops the others.
VendorUpdate(body) ==
    [f \in DOMAIN body \cap {"business_name", "market_id"} |-> body[f]]

\* create_vendor_profile up to the insert: <<>> when the checks pass.
create_vendor_profile_lookup(token, vendor_data) ==
    LET r == get_current_active_user(token)
    IN  IF r.status # 200 THEN r
        ELSE IF users[r.user].role # "vendor"
             THEN Response(403, <<"Only users with vendor role can create vendor profiles">>,
                           FALSE, r.user, NoBody)
        ELSE IF VendorOf(r.user) # 0
             THEN Response(400, <<"User already has a vendor profile">>, FALSE, r.user,
                           NoBody)
        ELSE IF vendor_data.market_id \notin DOMAIN markets
             THEN Response(404, <<"Market not found">>, FALSE, r.user, NoBody)
        ELSE <<>>

\* create_vendor_profile from the insert on.
create_vendor_profile_insert(user_id, vendor_data) ==
    LET id == seq.vendors + 1
        db_vendor == [user_id |-> user_id, is_verified |-> FALSE] @@ vendor_data
    IN  Commit(Response(201, <<>>, FALSE, user_id, [id |-> id] @@ db_vendor),
               [DB EXCEPT !.vendors = Insert(vendors, id, db_vendor),
                          !.seq.vendors = id])

create_vendor_profile(token, vendor_data) ==
    LET r == create_vendor_profile_lookup(token, vendor_data)
    IN  IF r # <<>> THEN Result(r, DB)
        ELSE create_vendor_profile_insert(get_current_active_user(token).user,
                                          vendor_data)

\* Faulty variant: any authenticated caller may update any profile.
update_vendor_no_owner_check(token, vendor_id, body) ==
    LET r == get_current_active_user(token)
        vendor_data == VendorUpdate(body)
        vendor == vendors[vendor_id]
    IN  IF r.status # 200 THEN Result(r, DB)
        ELSE IF vendor_id \notin DOMAIN vendors
             THEN Result(Response(404, <<"Vendor not found">>, FALSE, r.user, NoBody), DB)
        ELSE IF /\ "market_id" \in DOMAIN vendor_data
                /\ vendor_data.market_id # 0
                /\ vendor_data.market_id # vendor.market_id
                /\ vendor_data.market_id \notin DOMAIN markets
             THEN Result(Response(404, <<"New market not found">>, FALSE, r.user, NoBody),
                         DB)
        ELSE Commit(Response(200, <<>>, FALSE, r.user,
                             [id |-> vendor_id] @@ Patch(vendor, vendor_data)),
                    [DB EXCEPT !.vendors[vendor_id] = Patch(vendor, vendor_data)])

update_vendor(token, vendor_id, body) ==
    LET r == get_current_active_user(token)
        vendor_data == VendorUpdate(body)
        vendor == vendors[vendor_id]
    IN  IF r.status # 200 THEN Result(r, DB)
        ELSE IF vendor_id \notin DOMAIN vendors
             THEN Result(Response(404, <<"Vendor not found">>, FALSE, r.user, NoBody), DB)
        ELSE IF users[r.user].role # "admin" /\ vendor.user_id # r.user
             THEN Result(Response(403, <<"Not authorized to update this vendor profile">>,
                                  FALSE, r.user, NoBody), DB)
        ELSE IF /\ "market_id" \in DOMAIN vendor_data
                /\ vendor_data.market_id # 0
                /\ vendor_data.market_id # vendor.market_id
                /\ vendor_data.market_id \notin DOMAIN markets
             THEN Result(Response(404, <<"New market not found">>, FALSE, r.user, NoBody),
                         DB)
        ELSE Commit(Response(200, <<>>, FALSE, r.user,
                             [id |-> vendor_id] @@ Patch(vendor, vendor_data)),
                    [DB EXCEPT !.vendors[vendor_id] = Patch(vendor, vendor_data)])

verify_vendor(token, vendor_id) ==
    LET r == require_admin(token)
    IN  IF r.status # 200 THEN Result(r, DB)
        ELSE IF vendor_id \notin DOMAIN vendors
             THEN Result(Response(404, <<"Vendor not found">>, FALSE, r.user, NoBody), DB)
        ELSE Commit(Response(200, <<"Vendor verified successfully">>, FALSE, r.user,
                             NoBody),
                    [DB EXCEPT !.vendors[vendor_id].is_verified = TRUE])

unverify_vendor(token, vendor_id) ==
    LET r == require_admin(token)
    IN  IF r.status # 200 THEN Result(r, DB)
        ELSE IF vendor_id \notin DOMAIN vendors
             THEN Result(Response(404, <<"Vendor not found">>, FALSE, r.user, NoBody), DB)
        ELSE Commit(Response(200, <<"Vendor verification removed">>, FALSE, r.user,
                             NoBody),
                    [DB EXCEPT !.vendors[vendor_id].is_verified = FALSE])

----------------------------------------------------------------------------
(* Clients *)

\* An expiry no instant of the model reaches.
FarFuture == REFRESH_TOKEN_EXPIRE_MINUTES + MaxIssueTime + 2

\* Bearer strings that do not come from the service.  The signed ones are
\* made with SECRET_KEY, whose default value ships in config.py.
Garbage ==
    [kind |-> "access", signed |-> FALSE,
     claims |-> [sub |-> "a@x.com", user_id |-> 1, role |-> "admin", exp |-> FarFuture]]
NoSub ==
    [kind |-> "access", signed |-> TRUE,
     claims |-> [user_id |-> 1, role |-> "admin", exp |-> FarFuture]]
NoUserId ==
    [kind |-> "access", signed |-> TRUE,
     claims |-> [sub |-> "a@x.com", role |-> "admin", exp |-> FarFuture]]
Ghost ==
    [kind |-> "access", signed |-> TRUE,
     claims |-> [sub |-> "a@x.com", user_id |-> MaxUsers + 1, role |-> "admin",
                 exp |-> FarFuture]]
\* Signed tokens for user 1 whose sub and role need not match the stored row.
ForeignAccess ==
    [kind |-> "access", signed |-> TRUE,
     claims |-> [sub |-> "b@x.com", user_id |-> 1, role |-> "admin", exp |-> FarFuture]]
ForeignRefresh ==
    [kind |-> "refresh", signed |-> TRUE,
     claims |-> [sub |-> "b@x.com", user_id |-> 1, role |-> "admin", exp |-> FarFuture]]

IssuedTokens == {i.token : i \in issued}
IssuedAccess == {t \in IssuedTokens : t.kind = "access"}

\* What a client may send as Authorization: Bearer ...
BearerInputs == IssuedAccess \cup {Garbage, NoSub, NoUserId, Ghost, ForeignAccess}
\* What a client may send as RefreshToken.refresh_token
RefreshInputs == IssuedTokens \cup {Garbage, ForeignAccess, ForeignRefresh}

----------------------------------------------------------------------------
(* The state machine *)

NoRequest == [op |-> "none", req |-> <<>>, resp |-> Response(0, <<>>, FALSE, 0, NoBody)]

Request(op, req, resp) == [op |-> op, req |-> req, resp |-> resp]

\* Requests are served one at a time (spec.md section 5: a request is a
\* single synchronous unit of work).
Idle == last = NoRequest

\* The sequences of an empty database.
NoRows == [markets |-> 0, vendors |-> 0, categories |-> 0, products |-> 0,
          files |-> 0]

\* The workers that serve requests side by side.
Workers == {1, 2}
Free == [op |-> "none", req |-> <<>>]
NoPending == [w \in Workers |-> Free]

Init ==
    /\ users = <<>>
    /\ now = 0
    /\ issued = {}
    /\ acceptAtExp \in BOOLEAN
    /\ last = NoRequest
    /\ markets = EmptyTable
    /\ vendors = EmptyTable
    /\ categories = EmptyTable
    /\ products = EmptyTable
    /\ seq = NoRows
    /\ files = {}
    /\ pending = NoPending

\* The tokens of a Token body join the history; the model stops issuing new
\* tokens after MaxIssueTime and after MaxIssued responses.
Emit(resp) ==
    IF resp.status # 200 THEN issued' = issued
    ELSE LET new == {[token |-> resp.body.access_token, iat |-> now],
                     [token |-> resp.body.refresh_token, iat |-> now]}
         IN  /\ new \subseteq issued
                \/ (now <= MaxIssueTime /\ Cardinality(IssuedAccess) < MaxIssued)
             /\ issued' = issued \cup new

Register(email, password, role) ==
    LET r == register_user(UserCreate(email, password, None, role))
    IN  /\ Idle
        /\ Len(r.db) <= MaxUsers
        /\ users' = r.db
        /\ last' = Request("register", [email |-> email, password |-> password,
                                        role |-> role], r.resp)
        /\ UNCHANGED <<now, issued, acceptAtExp, marketVars, pending>>

Login(email, password) ==
    LET r == login_user(email, password)
    IN  /\ Idle
        /\ Emit(r)
        /\ last' = Request("login", [email |-> email, password |-> password], r)
        /\ UNCHANGED <<users, now, acceptAtExp, marketVars, pending>>

Refresh(refresh_token) ==
    LET r == refresh_access_token(refresh_token)
    IN  /\ Idle
        /\ Emit(r)
        /\ last' = Request("refresh", [token |-> refresh_token], r)
        /\ UNCHANGED <<users, now, acceptAtExp, marketVars, pending>>

Me(token) ==
    /\ Idle
    /\ last' = Request("me", [token |-> token], get_current_user_profile(token))
    /\ UNCHANGED <<users, now, issued, acceptAtExp, marketVars, pending>>

Logout(token) ==
    /\ Idle
    /\ last' = Request("logout", [token |-> token], logout_user(token))
    /\ UNCHANGED <<users, now, issued, acceptAtExp, marketVars, pending>>

ToggleActive(token, user_id) ==
    LET r == toggle_user_active_status(token, user_id)
    IN  /\ Idle
        /\ users' = r.db
        /\ last' = Request("toggle-active", [token |-> token, user_id |-> user_id],
                           r.resp)
        /\ UNCHANGED <<now, issued, acceptAtExp, marketVars, pending>>

ChangePassword(token, current_password, new_password) ==
    LET r == change_password(token, current_password, new_password)
    IN  /\ Idle
        /\ users' = r.db
        /\ last' = Request("change-password",
                           [token |-> token, current_password |-> current_password,
                            new_password |-> new_password], r.resp)
        /\ UNCHANGED <<now, issued, acceptAtExp, marketVars, pending>>

\* The response reaches the client; the server is ready for the next request.
Deliver ==
    /\ last # NoRequest
    /\ last' = NoRequest
    /\ UNCHANGED <<users, now, issued, acceptAtExp, marketVars, pending>>

\* Time passes between requests.
Tick ==
    /\ Idle
    /\ \E t \in Instants : t > now /\ now' = t
    /\ UNCHANGED <<users, issued, acceptAtExp, last, marketVars, pending>>

Next ==
    \/ \E e \in Emails, p \in RegisterPasswords, r \in UserRole : Register(e, p, r)
    \/ \E e \in Emails, p \in Passwords : Login(e, p)
    \/ \E t \in RefreshInputs : Refresh(t)
    \/ \E t \in BearerInputs : Me(t)
    \/ \E t \in BearerInputs : Logout(t)
    \/ \E t \in BearerInputs, id \in 1..MaxUsers : ToggleActive(t, id)
    \/ Deliver
    \/ Tick

Spec == Init /\ [][Next]_vars

\* The account endpoints, all requests arriving within the same minute.
NextAccounts ==
    \/ \E e \in Emails, p \in RegisterPasswords, r \in UserRole : Register(e, p, r)
    \/ \E e \in Emails, p \in Passwords : Login(e, p)
    \/ \E t \in RefreshInputs : Refresh(t)
    \/ \E t \in BearerInputs : Me(t)
    \/ \E t \in BearerInputs : Logout(t)
    \/ \E t \in BearerInputs, c \in Passwords, n \in Passwords :
          ChangePassword(t, c, n)
    \/ \E t \in BearerInputs, id \in 1..MaxUsers : ToggleActive(t, id)
    \/ Deliver

SpecAccounts == Init /\ [][NextAccounts]_vars

----------------------------------------------------------------------------
(* The marketplace: an admin, two vendors and a consumer are registered and
   logged in, and call the marketplace endpoints one request at a time. *)

StaffUser(email, role) ==
    [email |-> email, hashed_password |-> get_password_hash("password1"),
     phone |-> None, role |-> role, is_active |-> TRUE]

Staff == <<StaffUser("admin@x.com", "admin"), StaffUser("v1@x.com", "vendor"),
           StaffUser("v2@x.com", "vendor"), StaffUser("c@x.com", "consumer")>>

\* The tables hold the staff, each of whom logged in at minute 0.
InitStaff ==
    /\ users = Staff
    /\ now = 0
    /\ acceptAtExp = FALSE
    /\ issued = UNION {{[token |-> create_access_token(UserClaims(uid),
                                                       ACCESS_TOKEN_EXPIRE_MINUTES),
                          iat |-> 0],
                         [token |-> create_refresh_token(UserClaims(uid)),
                          iat |-> 0]} : uid \in DOMAIN Staff}
    /\ last = NoRequest
    /\ pending = NoPending

\* What a client sends as Authorization: Bearer ... to the marketplace.
Callers == IssuedAccess \cup {Garbage}

\* Ids a client may name: those handed out so far and one never handed out.
PathIds(n) == 1..(n + 1)
\* Ids in a request body: 0 as well.
BodyIds(n) == 0..(n + 1)

CategoryNames == {"Fruits", "Vegetables"}
MarketNames == {"Niji", "Asa"}

Photo == UploadFile(<<"image", "jpeg">>, ".jpg", 1024, TRUE, TRUE)
TextFile == UploadFile(<<"text", "plain">>, ".txt", 1024, FALSE, TRUE)

\* The handler's writes are stored and its response is on its way.  The
\* sequences stop at the bounds of the model.
Store(op, req, r) ==
    /\ Idle
    /\ r.db.seq.markets <= MaxMarkets
    /\ r.db.seq.categories <= MaxCategories
    /\ r.db.seq.products <= MaxProducts
    /\ r.db.seq.files <= MaxUploads
    /\ markets' = r.db.markets
    /\ vendors' = r.db.vendors
    /\ categories' = r.db.categories
    /\ products' = r.db.products
    /\ seq' = r.db.seq
    /\ files' = r.db.files
    /\ last' = Request(op, req, r.resp)
    /\ UNCHANGED <<users, now, issued, acceptAtExp>>

\* A request served from beginning to end in one step.
Apply(op, req, r) == Store(op, req, r) /\ UNCHANGED pending

\* A handler that only reads.
Read(op, req, resp) == Apply(op, req, Result(resp, DB))

GetCategory(category_id) ==
    Read("get-category", [id |-> category_id], get_category(category_id))

CreateCategory(token, name) ==
    Apply("create-category", [token |-> token, data |-> [name |-> name]],
          create_category(token, [name |-> name]))

UpdateCategory(token, category_id, category_data) ==
    Apply("update-category",
          [token |-> token, id |-> category_id, data |-> category_data],
          update_category(token, category_id, category_data))

DeleteCategory(token, category_id) ==
    Apply("delete-category", [token |-> token, id |-> category_id],
          delete_category(token, category_id))

CreateProduct(token, product_data) ==
    Apply("create-product", [token |-> token, data |-> product_data],
          create_product(token, product_data))

UpdateProduct(token, product_id, product_data) ==
    Apply("update-product",
          [token |-> token, id |-> product_id, data |-> product_data],
          update_product(token, product_id, product_data))

DeleteProduct(token, product_id, fault) ==
    Apply("delete-product", [token |-> token, id |-> product_id, fault |-> fault],
          delete_product(token, product_id, fault))

UploadProductImage(token, product_id, file, fault) ==
    Apply("upload-product-image",
          [token |-> token, id |-> product_id, file |-> file, fault |-> fault],
          upload_product_image(token, product_id, file, fault))

\* An unlink is at stake only when the product names an image.
ProductUnlinks(product_id) ==
    IF product_id \in DOMAIN products /\ products[product_id].main_image # 0
    THEN UnlinkFaults
    ELSE {"none"}

\* The catalog is worked on once a market is open and vendor A, or both
\* vendors, have a profile there.
InitCatalog ==
    /\ InitStaff
    /\ markets = Insert(EmptyTable, 1, [name |-> "Niji", city |-> "Tokyo",
                                        is_active |-> TRUE, main_image |-> 0])
    /\ \E n \in 1..2 :
          /\ vendors = [v \in 1..n |-> [user_id |-> v + 1, market_id |-> 1,
                                        business_name |-> "Farm",
                                        is_verified |-> FALSE]]
          /\ seq = [NoRows EXCEPT !.markets = 1, !.vendors = n]
    /\ categories = EmptyTable
    /\ products = EmptyTable
    /\ files = {}

NextCatalog ==
    \/ \E id \in PathIds(seq.categories) : GetCategory(id)
    \/ \E t \in Callers, n \in CategoryNames : CreateCategory(t, n)
    \/ \E t \in Callers, id \in PathIds(seq.categories), n \in CategoryNames :
          UpdateCategory(t, id, [name |-> n])
    \/ \E t \in Callers, id \in PathIds(seq.categories) : DeleteCategory(t, id)
    \/ \E t \in Callers, c \in PathIds(seq.categories) :
          CreateProduct(t, ProductCreate("Tomato", c))
    \/ \E t \in Callers, id \in PathIds(seq.products), c \in BodyIds(seq.categories) :
          UpdateProduct(t, id, [category_id |-> c])
    \/ \E t \in Callers, id \in PathIds(seq.products) :
          UpdateProduct(t, id, [name |-> "Cherry tomato"])
    \/ \E t \in Callers, id \in PathIds(seq.products) :
          \E x \in ProductUnlinks(id) : DeleteProduct(t, id, x)
    \/ \E t \in Callers, id \in PathIds(seq.products), f \in {Photo, TextFile} :
          \E x \in ProductUnlinks(id) : UploadProductImage(t, id, f, x)
    \/ Deliver

SpecCatalog == InitCatalog /\ [][NextCatalog]_vars

GetMarket(market_id) ==
    Read("get-market", [id |-> market_id], get_market(market_id))

CreateMarket(token, market_data) ==
    Apply("create-market", [token |-> token, data |-> market_data],
          create_market(token, market_data))

DeleteMarket(token, market_id) ==
    Apply("delete-market", [token |-> token, id |-> market_id],
          delete_market(token, market_id))

CreateVendorProfile(token, vendor_data) ==
    Apply("create-vendor", [token |-> token, data |-> vendor_data],
          create_vendor_profile(token, vendor_data))

UpdateVendor(token, vendor_id, body) ==
    Apply("update-vendor", [token |-> token, id |-> vendor_id, data |-> body],
          update_vendor(token, vendor_id, body))

VerifyVendor(token, vendor_id) ==
    Apply("verify-vendor", [token |-> token, id |-> vendor_id],
          verify_vendor(token, vendor_id))

UnverifyVendor(token, vendor_id) ==
    Apply("unverify-vendor", [token |-> token, id |-> vendor_id],
          unverify_vendor(token, vendor_id))

\* Bodies a client puts to /vendors/{id}; is_verified is not a field of the
\* update schema.
VendorBodies ==
    {[business_name |-> "Orchard"], [is_verified |-> TRUE],
     [business_name |-> "Orchard", is_verified |-> TRUE]}
        \cup {[market_id |-> m] : m \in BodyIds(seq.markets)}

\* Markets and vendor profiles, from an empty marketplace.
InitVendors ==
    /\ InitStaff
    /\ markets = EmptyTable
    /\ vendors = EmptyTable
    /\ categories = EmptyTable
    /\ products = EmptyTable
    /\ seq = NoRows
    /\ files = {}

NextVendors ==
    \/ \E id \in PathIds(seq.markets) : GetMarket(id)
    \/ \E t \in Callers, n \in MarketNames : CreateMarket(t, MarketCreate(n, "Tokyo"))
    \/ \E t \in Callers, id \in PathIds(seq.markets) : DeleteMarket(t, id)
    \/ \E t \in Callers, m \in PathIds(seq.markets) :
          CreateVendorProfile(t, VendorCreate("Farm", m))
    \/ \E t \in Callers, id \in PathIds(seq.vendors), b \in VendorBodies :
          UpdateVendor(t, id, b)
    \/ \E t \in Callers, id \in PathIds(seq.vendors) : VerifyVendor(t, id)
    \/ \E t \in Callers, id \in PathIds(seq.vendors) : UnverifyVendor(t, id)
    \/ Deliver

SpecVendors == InitVendors /\ [][NextVendors]_vars

----------------------------------------------------------------------------
(* Requests served side by side.  Each worker has its own database session:
   what a handler read stays as it was read until the handler commits, and
   the commit is checked against the constraints of the tables. *)

Begin(w, op, req) == pending' = [pending EXCEPT ![w] = [op |-> op, req |-> req]]
End(w) == pending' = [pending EXCEPT ![w] = Free]

\* register_user up to its lookups: a refusal is answered at once, otherwise
\* the worker goes on to the insert.
RegisterLookup(w, email, password, phone) ==
    LET user_data == UserCreate(email, password, phone, "consumer")
        r == register_user_lookup(user_data)
    IN  /\ pending[w] = Free
        /\ IF r # <<>>
           THEN /\ Idle
                /\ last' = Request("register", user_data, r)
                /\ UNCHANGED pending
           ELSE /\ Begin(w, "register", user_data)
                /\ UNCHANGED last
        /\ UNCHANGED <<users, now, issued, acceptAtExp, marketVars>>

\* register_user from the insert on.
RegisterInsert(w) ==
    /\ pending[w].op = "register"
    /\ Idle
    /\ LET r == register_user_insert(pending[w].req)
       IN  /\ Len(r.db) <= MaxUsers
           /\ users' = r.db
           /\ last' = Request("register", pending[w].req, r.resp)
    /\ End(w)
    /\ UNCHANGED <<now, issued, acceptAtExp, marketVars>>

NextRegister ==
    \/ \E w \in Workers, e \in Emails, p \in RegisterPasswords, ph \in Phones :
          RegisterLookup(w, e, p, ph)
    \/ \E w \in Workers : RegisterInsert(w)
    \/ Deliver

SpecRegister == Init /\ [][NextRegister]_vars

\* create_vendor_profile up to its checks: a refusal is answered at once,
\* otherwise the worker goes on to the insert for the user it resolved.
VendorLookup(w, token, vendor_data) ==
    LET r == create_vendor_profile_lookup(token, vendor_data)
        req == [token |-> token, data |-> vendor_data,
                user |-> get_current_active_user(token).user]
    IN  /\ pending[w] = Free
        /\ IF r # <<>>
           THEN /\ Idle
                /\ last' = Request("create-vendor", req, r)
                /\ UNCHANGED pending
           ELSE /\ Begin(w, "create-vendor", req)
                /\ UNCHANGED last
        /\ UNCHANGED <<users, now, issued, acceptAtExp, marketVars>>

\* create_vendor_profile from the insert on.
VendorInsert(w) ==
    /\ pending[w].op = "create-vendor"
    /\ Store("create-vendor", pending[w].req,
             create_vendor_profile_insert(pending[w].req.user, pending[w].req.data))
    /\ End(w)

\* Vendor profiles are created side by side in an open market.
InitProfiles ==
    /\ InitStaff
    /\ markets = Insert(EmptyTable, 1, [name |-> "Niji", city |-> "Tokyo",
                                        is_active |-> TRUE, main_image |-> 0])
    /\ vendors = EmptyTable
    /\ categories = EmptyTable
    /\ products = EmptyTable
    /\ seq = [NoRows EXCEPT !.markets = 1]
    /\ files = {}

NextProfiles ==
    \/ \E w \in Workers, t \in Callers, m \in PathIds(seq.markets) :
          VendorLookup(w, t, VendorCreate("Farm", m))
    \/ \E w \in Workers : VendorInsert(w)
    \/ Deliver

SpecProfiles == InitProfiles /\ [][NextProfiles]_vars

----------------------------------------------------------------------------
(* Vocabulary of the properties *)

\* A step that serves a request: the unprimed state is the state the handler
\* ran in, last' is the request and what it answered.
Serves(ops) == Idle /\ last'.op \in ops

\* Endpoints behind get_current_user.
ProtectedOps == {"me", "logout", "toggle-active"}

\* The stored row a well-formed token names (0: none), read without the codec.
Holder(token) == UserById(token.claims)

NothingStored == users' = users /\ issued' = issued

InactiveAccount == Response(400, <<"Inactive user">>, FALSE, 0, NoBody)

InvalidCredentials ==
    Response(401, <<"Incorrect email or password">>, TRUE, 0, NoBody)

----------------------------------------------------------------------------
(* C1: once a user's is_active is false, a protected request bearing that
   user's issued, still unexpired access token is answered 400 "Inactive
   user": not 200, not 401, and nothing is stored. *)
C1_InactiveUserRejected ==
    [][Serves(ProtectedOps) =>
         LET t == last'.req.token
         IN  (/\ t \in IssuedAccess
              /\ ~Expired(t.claims.exp)
              /\ ~users[Holder(t)].is_active)
             => /\ last'.resp = InactiveAccount
                /\ NothingStored]_vars

\* A deactivated user's unexpired issued token was presented and refused.
C1_Witness ==
    /\ last.op = "me"
    /\ last.req.token \in IssuedAccess
    /\ now < last.req.token.claims.exp
    /\ ~users[Holder(last.req.token)].is_active
    /\ last.resp.status = 400

C2_Unresolvable(token) ==
    \/ ~decode_access_token(token).valid
    \/ "sub" \notin DOMAIN token.claims
    \/ "user_id" \notin DOMAIN token.claims
    \/ token.claims.user_id \notin UserIds

(* C2: a protected request is answered 401 "Could not validate credentials"
   with WWW-Authenticate: Bearer, resolves no user and stores nothing,
   whenever its token does not decode, or the claims lack sub or user_id, or
   user_id names no row; these come before the is_active check, so such a
   token is answered 401 even when the row its user_id names is inactive. *)
C2_UnauthenticatedFirst ==
    [][Serves(ProtectedOps) =>
         (C2_Unresolvable(last'.req.token)
             => /\ last'.resp.status = 401
                /\ last'.resp.detail = <<"Could not validate credentials">>
                /\ last'.resp.www
                /\ last'.resp.user = 0
                /\ NothingStored)]_vars

\* A signed token without sub whose user_id names an inactive row got 401.
C2_Witness ==
    /\ last.op \in ProtectedOps
    /\ last.req.token = NoSub
    /\ Holder(NoSub) # 0
    /\ ~users[Holder(NoSub)].is_active
    /\ last.resp = credentials_exception

C3_Gates ==
    {<<"require_admin", {"admin"}>>, <<"require_vendor", {"vendor"}>>,
     <<"require_consumer", {"consumer"}>>,
     <<"require_vendor_or_admin", {"vendor", "admin"}>>}

C3_Apply(gate, token) ==
    CASE gate = "require_admin" -> require_admin(token)
      [] gate = "require_vendor" -> require_vendor(token)
      [] gate = "require_consumer" -> require_consumer(token)
      [] gate = "require_vendor_or_admin" -> require_vendor_or_admin(token)

C3_GateDecides ==
    \A token \in BearerInputs : \A g \in C3_Gates :
        LET r == get_current_active_user(token)
            out == C3_Apply(g[1], token)
        IN  IF r.status # 200 THEN out = r
            ELSE IF users[r.user].role \in g[2] THEN out = r
            ELSE out.status = 403 /\ out.user = 0

(* C3: every role gate hands back exactly the user get_current_active_user
   resolved when that user's stored role is in the gate's allowed set, and
   otherwise answers 403; an admin-gated request that is answered 403 (or
   any other failure of the dependency chain) stores nothing, and one that
   ran its operation was made by a stored admin. *)
C3_RoleGate ==
    /\ []C3_GateDecides
    /\ [][Serves({"toggle-active"}) =>
            LET r == get_current_active_user(last'.req.token)
                admin == r.status = 200 /\ users[r.user].role = "admin"
            IN  /\ ~admin => NothingStored
                /\ (r.status = 200 /\ ~admin) => last'.resp.status = 403
                /\ admin => last'.resp.status \in {200, 404}
                         /\ last'.resp.user = r.user]_vars

\* A token whose role claim says admin, held by a stored non-admin, was
\* refused by the admin gate.
C3_Witness ==
    /\ last.op = "toggle-active"
    /\ last.req.token = ForeignAccess
    /\ last.resp.status = 403
    /\ users[Holder(ForeignAccess)].role # "admin"

(* C4: login answers 401 for an unknown email or a password that does not
   verify, whether or not the account is active; 400 "Inactive user account"
   for a stored inactive user with the right password; and a Token body with
   an access and a refresh token only for a stored active user with the
   right password.  A failing login stores nothing. *)
C4_LoginOrder ==
    [][Serves({"login"}) =>
         LET uid == UserByEmail(last'.req.email)
             known == uid # 0
             match == known /\ users[uid].hashed_password.of = last'.req.password
             resp == last'.resp
         IN  /\ ~match => resp.status = 401
                          /\ resp.detail = <<"Incorrect email or password">>
             /\ (match /\ ~users[uid].is_active)
                    => resp.status = 400 /\ resp.detail = <<"Inactive user account">>
             /\ (match /\ users[uid].is_active)
                    => /\ resp.status = 200
                       /\ resp.body.access_token.kind = "access"
                       /\ resp.body.refresh_token.kind = "refresh"
                       /\ resp.body.access_token.claims.user_id = uid
                       /\ resp.body.refresh_token.claims.user_id = uid
             /\ resp.status # 200 => NothingStored /\ resp.body = NoBody
             /\ users' = users]_vars

\* An inactive user logged in with a wrong password and got 401.
C4_Witness ==
    /\ last.op = "login"
    /\ UserByEmail(last.req.email) # 0
    /\ ~users[UserByEmail(last.req.email)].is_active
    /\ users[UserByEmail(last.req.email)].hashed_password.of # last.req.password
    /\ last.resp.status = 401

\* An inactive user logged in with the right password and got 400.
C4_WitnessInactive ==
    /\ last.op = "login"
    /\ UserByEmail(last.req.email) # 0
    /\ users[UserByEmail(last.req.email)].hashed_password.of = last.req.password
    /\ last.resp.status = 400

(* C5: in every state, a login whose password does not match gets one and
   the same response whether or not a user with that email is stored, and
   whether that user is active: 401 "Incorrect email or password". *)
C5_NoEmailOracle ==
    \A e \in Emails : \A p \in Passwords :
        LET uid == UserByEmail(e)
        IN  (uid = 0 \/ users[uid].hashed_password # get_password_hash(p))
                => login_user(e, p) = InvalidCredentials

\* The same response was given for a stored (inactive) email with a wrong
\* password while another email is not stored at all.
C5_Witness ==
    /\ last.op = "login"
    /\ last.resp = InvalidCredentials
    /\ UserByEmail(last.req.email) # 0
    /\ ~users[UserByEmail(last.req.email)].is_active
    /\ \E e \in Emails : UserByEmail(e) = 0 /\ login_user(e, last.req.password) = last.resp

(* C6: refresh answers 401 with no Token body, and nothing is issued or
   stored, whenever the refresh token does not decode (invalid or expired),
   its user_id names no row, or the row it names is inactive; the inactive
   case is 401 here, not 400. *)
C6_RefreshUnauthenticated ==
    [][Serves({"refresh"}) =>
         LET t == last'.req.token
             uid == Holder(t)
         IN  (\/ ~decode_refresh_token(t).valid
              \/ uid = 0
              \/ ~users[uid].is_active)
             => /\ last'.resp.status = 401
                /\ last'.resp.body = NoBody
                /\ NothingStored]_vars

\* An issued, unexpired refresh token of a deactivated user was refused 401.
C6_Witness ==
    /\ last.op = "refresh"
    /\ last.req.token \in IssuedTokens
    /\ decode_refresh_token(last.req.token).valid
    /\ ~users[Holder(last.req.token)].is_active
    /\ last.resp.status = 401

\* An issued refresh token was refused 401 because it had expired.
C6_WitnessExpired ==
    /\ last.op = "refresh"
    /\ last.req.token \in IssuedTokens
    /\ last.req.token.kind = "refresh"
    /\ now > last.req.token.claims.exp
    /\ users[Holder(last.req.token)].is_active
    /\ last.resp.status = 401

C7_FreshClaims(token, kind, uid) ==
    /\ token.kind = kind
    /\ token.signed
    /\ token.claims.sub = users[uid].email
    /\ token.claims.user_id = uid
    /\ token.claims.role = users[uid].role

(* C7: a successful refresh answers with an access token and a refresh
   token whose sub, user_id and role claims are those of the stored row the
   presented token's user_id names, whatever sub and role the presented
   token carries; both tokens join the issued ones. *)
C7_RefreshUsesStoredRow ==
    [][(Serves({"refresh"}) /\ last'.resp.status = 200) =>
         LET uid == last'.req.token.claims.user_id
             body == last'.resp.body
         IN  /\ uid \in UserIds
             /\ C7_FreshClaims(body.access_token, "access", uid)
             /\ C7_FreshClaims(body.refresh_token, "refresh", uid)
             /\ body.access_token.claims.exp = now + ACCESS_TOKEN_EXPIRE_MINUTES
             /\ {body.access_token, body.refresh_token} \subseteq IssuedTokens'
             /\ users' = users]_vars

\* A refresh token whose sub and role differ from the stored row was
\* exchanged for a new pair.
C7_Witness ==
    /\ last.op = "refresh"
    /\ last.req.token = ForeignRefresh
    /\ last.resp.status = 200
    /\ users[Holder(ForeignRefresh)].role # ForeignRefresh.claims.role
    /\ users[Holder(ForeignRefresh)].email # ForeignRefresh.claims.sub

C9_IssuedAccessAt == {i \in issued : i.token.kind = "access"}

C9_Window ==
    \A i \in C9_IssuedAccessAt :
        LET uid == Holder(i.token)
            r == get_current_user(i.token)
        IN  /\ i.token.claims.exp = i.iat + ACCESS_TOKEN_EXPIRE_MINUTES
            /\ uid # 0
            /\ users[uid].is_active =>
                 /\ now < i.iat + ACCESS_TOKEN_EXPIRE_MINUTES
                        => r = Response(200, <<>>, FALSE, uid, NoBody)
                 /\ now > i.iat + ACCESS_TOKEN_EXPIRE_MINUTES
                        => r = credentials_exception

C9_ExpiredRefused ==
    {t \in IssuedAccess : Expired(t.claims.exp) /\ get_current_user(t).status = 401}

(* C9: an access token issued at time t expires at t + 30: while its user
   is active the resolver accepts it at every instant before t + 30 and
   answers 401 at every instant after t + 30; and a token the resolver has
   refused as expired is refused in every later state. *)
C9_ClockBoundary ==
    /\ []C9_Window
    /\ [][C9_ExpiredRefused \subseteq C9_ExpiredRefused']_vars

\* An active user's token was accepted at t + 29 ...
C9_WitnessBefore ==
    /\ last.op = "me"
    /\ last.resp.status = 200
    /\ \E i \in C9_IssuedAccessAt :
          i.token = last.req.token /\ now = i.iat + ACCESS_TOKEN_EXPIRE_MINUTES - 1

\* ... and refused at t + 31.
C9_Witness ==
    /\ last.op = "me"
    /\ last.resp.status = 401
    /\ \E i \in C9_IssuedAccessAt :
          /\ i.token = last.req.token
          /\ now = i.iat + ACCESS_TOKEN_EXPIRE_MINUTES + 1
          /\ users[Holder(i.token)].is_active

C10_Accepted == {t \in IssuedAccess : get_current_user(t).status = 200}

C10_Live ==
    {t \in IssuedAccess : now < t.claims.exp /\ users[Holder(t)].is_active}

(* C10: logout stores nothing, and no logout, login or refresh takes away an
   issued access token: every issued access token the resolver accepts
   before such a request it accepts after it, and in every state the
   resolver accepts every issued access token that is before its expiry
   and whose user is active. *)
C10_NoRevocation ==
    /\ [](C10_Live \subseteq C10_Accepted)
    /\ [][Serves({"logout"}) => UNCHANGED <<users, now, issued, acceptAtExp>>]_vars
    /\ [][Serves({"logout", "login", "refresh"}) =>
            C10_Accepted \subseteq C10_Accepted']_vars

\* A user logged out with an older token after a newer one was issued to
\* the same user, and the older token is still accepted.
C10_Witness ==
    /\ last.op = "logout"
    /\ last.resp.status = 200
    /\ \E i, j \in C9_IssuedAccessAt :
          /\ i.token = last.req.token
          /\ Holder(j.token) = Holder(i.token)
          /\ j.iat > i.iat
    /\ last.req.token \in C10_Accepted

----------------------------------------------------------------------------
(* C11: a user's stored role is the role the row was created with: a
   successful register stores the requested role in the new row, and no step
   of any endpoint removes a row or changes the role of one. *)
C11_RoleImmutable ==
    [][/\ \A i \in UserIds :
            i \in DOMAIN users' /\ users'[i].role = users[i].role
       /\ Serves({"register"}) /\ last'.resp.status = 201
            => /\ Len(users') = Len(users) + 1
               /\ users'[Len(users')].role = last'.req.role]_vars

\* A vendor who is not the first user has changed the password.
C11_Witness ==
    /\ last.op = "change-password"
    /\ last.resp.status = 200
    /\ last.resp.user = 2
    /\ users[2].role = "vendor"

----------------------------------------------------------------------------
\* The stored user, if any, that holds the email or the phone of a request.
C12_Held(user_data) ==
    \E i \in UserIds :
        \/ users[i].email = user_data.email
        \/ (user_data.phone # None /\ users[i].phone = user_data.phone)

C12_Unique ==
    \A i, j \in UserIds :
        i # j => /\ users[i].email # users[j].email
                 /\ users[i].phone # None => users[i].phone # users[j].phone

(* C12: no two users share an email or a phone, also when register requests
   interleave, and a register request answered while another user holds its
   email or phone is answered 400 and leaves the users table as it was. *)
C12_UniqueIdentity ==
    /\ []C12_Unique
    /\ [][Serves({"register"}) /\ C12_Held(last'.req)
            => last'.resp.status = 400 /\ users' = users]_vars

----------------------------------------------------------------------------
(* Vocabulary of the marketplace properties *)

\* The member of the staff whose session token a request bears (0: none).
Caller(token) == IF token \in IssuedAccess THEN Holder(token) ELSE 0

CallerRole(token) == IF Caller(token) = 0 THEN "none" ELSE users[Caller(token)].role

ByAdmin(ops) == Serves(ops) /\ CallerRole(last'.req.token) = "admin"

(* C13: delete_category by an admin of a category that products use is
   answered 400 and leaves categories and products as they were; of a
   category no product uses it is answered 200 and removes the row; a removed
   row does not come back, and get_category of an id with no row is answered
   404. *)
C13_DeleteCategory ==
    [][/\ (ByAdmin({"delete-category"}) /\ last'.req.id \in DOMAIN categories)
            => IF ProductCount(last'.req.id) > 0
               THEN /\ last'.resp.status = 400
                    /\ categories' = categories
                    /\ products' = products
               ELSE /\ last'.resp.status = 200
                    /\ last'.req.id \notin DOMAIN categories'
       /\ \A id \in 1..seq.categories :
            id \notin DOMAIN categories => id \notin DOMAIN categories'
       /\ (Serves({"get-category"}) /\ last'.req.id \notin DOMAIN categories)
            => last'.resp.status = 404]_vars

\* A category that was created and deleted is asked for and not found.
C13_Witness ==
    /\ last.op = "get-category"
    /\ last.req.id <= seq.categories
    /\ last.resp.status = 404

\* The delete of a category in use was refused.
C13_WitnessConflict ==
    /\ last.op = "delete-category"
    /\ last.resp.status = 400
    /\ ProductCount(last.req.id) > 0

----------------------------------------------------------------------------
\* The request of this step would give a category the name of another one.
C14_Duplicates ==
    \/ /\ ByAdmin({"create-category"})
       /\ \E c \in DOMAIN categories : categories[c].name = last'.req.data.name
    \/ /\ ByAdmin({"update-category"})
       /\ last'.req.id \in DOMAIN categories
       /\ \E c \in DOMAIN categories \ {last'.req.id} :
             categories[c].name = last'.req.data.name

(* C14: no two categories have the same name, and a create_category or an
   update_category that would give a category the name of another one is
   answered 400 and leaves the categories as they were. *)
C14_UniqueNames ==
    /\ [](\A c, d \in DOMAIN categories :
             c # d => categories[c].name # categories[d].name)
    /\ [][C14_Duplicates => /\ last'.resp.status = 400
                            /\ categories' = categories]_vars

----------------------------------------------------------------------------
\* The products this step stored.
C19_Stored == DOMAIN products' \ DOMAIN products

C19_CategoryExists == last'.req.data.category_id \in DOMAIN categories

(* C19: create_product by an admin for an existing category is answered 201
   and stores one product whose vendor_id names an existing vendor; by a
   vendor with a profile it stores one product whose vendor_id is that
   profile; by a consumer it is answered 403 and stores nothing. *)
C19_CreateProduct ==
    [][Serves({"create-product"}) =>
         LET role == CallerRole(last'.req.token)
             mine == VendorOf(Caller(last'.req.token))
         IN  /\ (role = "admin" /\ C19_CategoryExists)
                  => /\ last'.resp.status = 201
                     /\ Cardinality(C19_Stored) = 1
                     /\ \A p \in C19_Stored : products'[p].vendor_id \in DOMAIN vendors'
             /\ (role = "vendor" /\ mine # 0 /\ C19_CategoryExists)
                  => /\ last'.resp.status = 201
                     /\ Cardinality(C19_Stored) = 1
                     /\ \A p \in C19_Stored : products'[p].vendor_id = mine
             /\ role = "consumer"
                  => /\ last'.resp.status = 403
                     /\ products' = products]_vars

----------------------------------------------------------------------------
C20_Ops == {"update-product", "delete-product", "upload-product-image"}

\* The caller is an admin, or a vendor whose profile the product belongs to.
C20_OwnerOrAdmin(token, product_id) ==
    \/ CallerRole(token) = "admin"
    \/ /\ CallerRole(token) = "vendor"
       /\ VendorOf(Caller(token)) # 0
       /\ products[product_id].vendor_id = VendorOf(Caller(token))

(* C20: update_product, delete_product and upload_product_image succeed only
   for a product that exists and a caller who is an admin or the vendor whose
   profile owns it; any other member of the staff is answered 403; and a
   request that is not the owner's or an admin's leaves the products and the
   stored files as they were. *)
C20_OwnerOrAdminOnly ==
    [][Serves(C20_Ops) =>
         LET token == last'.req.token
             id == last'.req.id
             entitled == id \in DOMAIN products /\ C20_OwnerOrAdmin(token, id)
         IN  /\ last'.resp.status = 200 => entitled
             /\ (id \in DOMAIN products /\ Caller(token) # 0 /\ ~entitled)
                  => last'.resp.status = 403
             /\ ~entitled => products' = products /\ files' = files]_vars

\* A vendor with a profile asked to delete another vendor's product, which
\* has an image, and was refused.
C20_Witness ==
    /\ last.op = "delete-product"
    /\ last.resp.status = 403
    /\ last.req.id \in DOMAIN products
    /\ products[last.req.id].main_image # 0
    /\ VendorOf(Caller(last.req.token)) # 0

\* The owner replaced the image of the product.
C20_WitnessOwner ==
    /\ last.op = "upload-product-image"
    /\ last.resp.status = 200
    /\ CallerRole(last.req.token) = "vendor"

----------------------------------------------------------------------------
C16_Profiles(user_id) == {v \in DOMAIN vendors : vendors[v].user_id = user_id}

C16_OneProfile ==
    \A u \in UserIds :
        /\ Cardinality(C16_Profiles(u)) <= 1
        /\ C16_Profiles(u) # {} => users[u].role = "vendor"

(* C16: a user has at most one vendor profile, also when create requests of
   the same user interleave, and only users of role vendor have one; a create
   answered while the caller has a profile is answered 400 and stores
   nothing, and a create by an admin or a consumer is answered 403. *)
C16_OneProfilePerVendor ==
    /\ []C16_OneProfile
    /\ [][Serves({"create-vendor"}) =>
             /\ C16_Profiles(Caller(last'.req.token)) # {}
                  => last'.resp.status = 400 /\ vendors' = vendors
             /\ CallerRole(last'.req.token) \in {"admin", "consumer"}
                  => last'.resp.status = 403 /\ vendors' = vendors]_vars

----------------------------------------------------------------------------
(* C15: delete_market by an admin of a market that vendors reference keeps
   the row and sets is_active to false; of a market no vendor references it
   removes the row; no step removes a market that a vendor references; and
   get_market answers 200 with the row for an id that has one and 404 for an
   id that has none. *)
C15_DeleteMarket ==
    [][/\ (ByAdmin({"delete-market"}) /\ last'.req.id \in DOMAIN markets)
            => /\ last'.resp.status = 200
               /\ IF VendorCount(last'.req.id) > 0
                  THEN /\ last'.req.id \in DOMAIN markets'
                       /\ markets'[last'.req.id] =
                             [markets[last'.req.id] EXCEPT !.is_active = FALSE]
                  ELSE last'.req.id \notin DOMAIN markets'
       /\ \A m \in DOMAIN markets : VendorCount(m) > 0 => m \in DOMAIN markets'
       /\ Serves({"get-market"})
            => IF last'.req.id \in DOMAIN markets
               THEN /\ last'.resp.status = 200
                    /\ last'.resp.body.id = last'.req.id
                    /\ last'.resp.body.is_active = markets[last'.req.id].is_active
               ELSE last'.resp.status = 404]_vars

\* A market with a vendor was deleted by the admin and is still fetched,
\* inactive.
C15_Witness ==
    /\ last.op = "get-market"
    /\ last.resp.status = 200
    /\ ~last.resp.body.is_active
    /\ last.resp.body.vendor_count > 0

\* A market without vendors was deleted and is not found any more.
C15_WitnessHard ==
    /\ last.op = "get-market"
    /\ last.req.id <= seq.markets
    /\ last.resp.status = 404

----------------------------------------------------------------------------
(* C17: the is_verified flag of a stored vendor profile changes only in a
   verify_vendor or unverify_vendor request of an admin, so in no request of
   a vendor or a consumer and in no update_vendor; a profile is unverified
   when it is created; and profiles are not removed. *)
C17_VerifiedByAdminOnly ==
    [][/\ \A v \in DOMAIN vendors : v \in DOMAIN vendors'
       /\ (\E v \in DOMAIN vendors : vendors'[v].is_verified # vendors[v].is_verified)
            => ByAdmin({"verify-vendor", "unverify-vendor"})
       /\ \A v \in DOMAIN vendors' \ DOMAIN vendors : ~vendors'[v].is_verified]_vars

\* The owner's update carried is_verified = true, succeeded, and the profile
\* is still unverified.
C17_Witness ==
    /\ last.op = "update-vendor"
    /\ last.resp.status = 200
    /\ "is_verified" \in DOMAIN last.req.data
    /\ last.req.data.is_verified
    /\ CallerRole(last.req.token) = "vendor"
    /\ ~vendors[last.req.id].is_verified

\* The admin verified a profile.
C17_WitnessVerified ==
    /\ last.op = "verify-vendor"
    /\ last.resp.status = 200
    /\ vendors[last.req.id].is_verified

----------------------------------------------------------------------------
\* The caller is an admin or the user the profile belongs to.
C18_OwnerOrAdmin(token, vendor_id) ==
    \/ CallerRole(token) = "admin"
    \/ vendors[vendor_id].user_id = Caller(token)

(* C18: update_vendor changes a profile only for an admin or the profile's
   user; any other member of the staff is answered 403 and the vendors are
   as they were; and an update whose market_id differs from the profile's and
   names no market is answered 404 and the vendors are as they were. *)
C18_UpdateVendor ==
    [][(Serves({"update-vendor"}) /\ last'.req.id \in DOMAIN vendors) =>
         LET token == last'.req.token
             id == last'.req.id
             data == last'.req.data
         IN  /\ vendors' # vendors => C18_OwnerOrAdmin(token, id)
             /\ (Caller(token) # 0 /\ ~C18_OwnerOrAdmin(token, id))
                  => last'.resp.status = 403 /\ vendors' = vendors
             /\ (/\ C18_OwnerOrAdmin(token, id)
                 /\ "market_id" \in DOMAIN data
                 /\ data.market_id # vendors[id].market_id
                 /\ data.market_id \notin DOMAIN markets)
                  => last'.resp.status = 404 /\ vendors' = vendors]_vars

----------------------------------------------------------------------------
\* The stored original and thumbnail a product's main_image names.
C21_Original(product) == Path("products", product.main_image, FALSE)
C21_Thumbnail(product) == Path("products", product.main_image, TRUE)

\* A delete_product answered 200 for a product that names an image.
C21_Deleted ==
    /\ Serves({"delete-product"})
    /\ last'.resp.status = 200
    /\ products[last'.req.id].main_image # 0

(* C21, as claimed: a delete_product answered 200 for a product with a
   main_image removes the product row, the stored original and the
   thumbnail. *)
C21_DeleteProduct ==
    [][C21_Deleted =>
         /\ last'.req.id \notin DOMAIN products'
         /\ C21_Original(products[last'.req.id]) \notin files'
         /\ C21_Thumbnail(products[last'.req.id]) \notin files']_vars

(* C21, amended: a delete_product answered 200 for a product with a
   main_image removes the product row and touches no file but the two the
   main_image names; it removes both of them when no unlink raises; when the
   unlink of the original raises both are left, and when the unlink of the
   thumbnail raises the original is removed and the thumbnail is left. *)
C21_DeleteProductBestEffort ==
    [][C21_Deleted =>
         LET product == products[last'.req.id]
             original == C21_Original(product)
             thumbnail == C21_Thumbnail(product)
             fault == last'.req.fault
         IN  /\ last'.req.id \notin DOMAIN products'
             /\ files' \subseteq files
             /\ files \ files' \subseteq {original, thumbnail}
             /\ fault = "none" => original \notin files' /\ thumbnail \notin files'
             /\ (fault = "original" /\ original \in files) => files' = files
             /\ (fault = "thumb" /\ thumbnail \in files)
                  => original \notin files' /\ thumbnail \in files']_vars

\* The product with a stored image and thumbnail was deleted and its files
\* are gone.
C21_Witness ==
    /\ last.op = "delete-product"
    /\ last.resp.status = 200
    /\ last.req.fault = "none"
    /\ seq.files > 0
    /\ files = {}
    /\ last.req.id \notin DOMAIN products

\* The product was deleted, answered 200, and its files are still stored.
C21_WitnessOrphan ==
    /\ last.op = "delete-product"
    /\ last.resp.status = 200
    /\ last.req.fault = "original"
    /\ products = EmptyTable
    /\ files # {}

----------------------------------------------------------------------------
(* The media store by itself: save_image and delete_image called on the
   upload directory, with every kind of upload and every unlink fault. *)

ContentTypes == {<<>>, <<"image">>, <<"image", "png">>, <<"text", "plain">>}
Suffixes == {"", ".jpg", ".JPG", ".txt"}
Sizes == {1024, MAX_FILE_SIZE, MAX_FILE_SIZE + 1}
Subdirs == {"products", "markets"}

Uploads ==
    {UploadFile(c, x, n, d, k) :
        c \in ContentTypes, x \in Suffixes, n \in Sizes, d \in BOOLEAN, k \in BOOLEAN}

SaveImage(content_type, suffix, size, decodes, disk_ok, subdir) ==
    LET file == UploadFile(content_type, suffix, size, decodes, disk_ok)
        saved == save_image(file, subdir, DB)
    IN  Apply("save-image", [file |-> file, subdir |-> subdir],
              Result([error |-> saved.error, filename |-> saved.filename], saved.db))

DeleteImage(filename, subdir, fault) ==
    LET deleted == delete_image(filename, subdir, DB, fault)
    IN  Apply("delete-image",
              [filename |-> filename, subdir |-> subdir, fault |-> fault],
              Result([ok |-> deleted.ok], deleted.db))

NextFiles ==
    \/ \E c \in ContentTypes, x \in Suffixes, n \in Sizes, d \in BOOLEAN,
          k \in BOOLEAN, s \in Subdirs : SaveImage(c, x, n, d, k, s)
    \/ \E f \in PathIds(seq.files), s \in Subdirs, x \in UnlinkFaults :
          DeleteImage(f, s, x)
    \/ Deliver

SpecFiles == Init /\ [][NextFiles]_vars

----------------------------------------------------------------------------
\* The upload has no content type or one that does not start with "image/",
\* or the extension of its file name, in lower case, is not an allowed one.
C22_InvalidFormat(file) ==
    \/ file.content_type = <<>>
    \/ Len(file.content_type) < 2
    \/ file.content_type[1] # "image"
    \/ lower(file.suffix) \notin {".jpg", ".jpeg", ".png", ".gif", ".webp"}

\* The content is larger than 5 MB.
C22_TooLarge(file) == file.size > 5242880

(* C22: save_image answers an upload of invalid format 400 "Invalid image
   file" whatever its size, and an upload of valid format and more than 5 MB
   400 "File too large"; neither writes a file or takes a file name; and no
   other upload is answered 400. *)
C22_SaveImageRejects ==
    [][Serves({"save-image"}) =>
         LET file == last'.req.file
             error == last'.resp.error
         IN  /\ C22_InvalidFormat(file)
                  => /\ error # <<>>
                     /\ error.status = 400
                     /\ error.detail = <<"Invalid image file">>
                     /\ files' = files /\ seq' = seq
             /\ (~C22_InvalidFormat(file) /\ C22_TooLarge(file))
                  => /\ error # <<>>
                     /\ error.status = 400
                     /\ error.detail = <<"File too large">>
                     /\ files' = files /\ seq' = seq
             /\ (~C22_InvalidFormat(file) /\ ~C22_TooLarge(file))
                  => (error = <<>> \/ error.status # 400)]_vars

\* An image of 5 MB and one byte was refused as too large.
C22_Witness ==
    /\ last.op = "save-image"
    /\ last.req.file.size = MAX_FILE_SIZE + 1
    /\ last.resp.error # <<>>
    /\ last.resp.error.detail = <<"File too large">>
    /\ files = {}

\* A text file of more than 5 MB was refused for its format.
C22_WitnessFormatFirst ==
    /\ last.op = "save-image"
    /\ last.req.file.size > MAX_FILE_SIZE
    /\ last.req.file.content_type = <<"text", "plain">>
    /\ last.resp.error # <<>>
    /\ last.resp.error.detail = <<"Invalid image file">>

----------------------------------------------------------------------------
(* C23: for an accepted upload save_image either returns a file name with
   the original and its thumbnail both stored, or fails with 500 and leaves
   no file of the upload behind; a failure to derive the thumbnail is not
   reported as success. *)
C23_SaveImageAllOrNothing ==
    [][(/\ Serves({"save-image"})
        /\ ~C22_InvalidFormat(last'.req.file)
        /\ ~C22_TooLarge(last'.req.file)) =>
         LET subdir == last'.req.subdir
             error == last'.resp.error
             filename == last'.resp.filename
         IN  \/ /\ error = <<>>
                /\ files' = files \cup {Path(subdir, filename, FALSE),
                                        Path(subdir, filename, TRUE)}
                /\ Path(subdir, filename, FALSE) \notin files
             \/ /\ error # <<>>
                /\ error.status = 500
                /\ files' = files]_vars

\* save_image returned a file name, and the original is stored without a
\* thumbnail.
C23_WitnessNoThumbnail ==
    /\ last.op = "save-image"
    /\ last.resp.error = <<>>
    /\ ~last.req.file.decodes
    /\ Path(last.req.subdir, last.resp.filename, FALSE) \in files
    /\ Path(last.req.subdir, last.resp.filename, TRUE) \notin files

----------------------------------------------------------------------------
\* delete_image called again on what a call left, whatever the file system
\* would do: it returns True and leaves the directory as it is.
C24_AgainNothing(filename, subdir, db) ==
    \A fault \in UnlinkFaults :
        LET again == delete_image(filename, subdir, db, fault)
        IN  again.ok /\ again.db = db

\* In this state, an accepted upload saved and then deleted leaves neither
\* its original nor its thumbnail.
C24_SaveThenDelete ==
    \A file \in Uploads, subdir \in Subdirs :
        LET saved == save_image(file, subdir, DB)
            deleted == delete_image(saved.filename, subdir, saved.db, "none")
        IN  saved.error = <<>>
              => /\ deleted.ok
                 /\ Path(subdir, saved.filename, FALSE) \notin deleted.db.files
                 /\ Path(subdir, saved.filename, TRUE) \notin deleted.db.files
                 /\ deleted.db.files = files

(* C24, as claimed: every call of delete_image reports success and leaves
   neither the original nor the thumbnail, whether or not they were there. *)
C24_DeleteImage ==
    [][Serves({"delete-image"}) =>
         /\ last'.resp.ok
         /\ Path(last'.req.subdir, last'.req.filename, FALSE) \notin files'
         /\ Path(last'.req.subdir, last'.req.filename, TRUE) \notin files']_vars

(* C24, amended: delete_image touches no file but the original and the
   thumbnail of the name it is given; it returns True, leaving neither, unless
   an unlink of a file that is there raises, and then it returns False with
   the file whose unlink raised (and the thumbnail, when it was the
   original's) left; with both absent it returns True and changes nothing; a
   second call after a call that returned True returns True and changes
   nothing; and an upload saved and then deleted leaves neither file. *)
C24_DeleteImageUnlessFault ==
    [][Serves({"delete-image"}) =>
         LET filename == last'.req.filename
             subdir == last'.req.subdir
             fault == last'.req.fault
             original == Path(subdir, filename, FALSE)
             thumbnail == Path(subdir, filename, TRUE)
             raised == \/ fault = "original" /\ original \in files
                       \/ fault = "thumb" /\ thumbnail \in files
         IN  /\ last'.resp.ok = ~raised
             /\ files' \subseteq files
             /\ files \ files' \subseteq {original, thumbnail}
             /\ ~raised => original \notin files' /\ thumbnail \notin files'
             /\ (fault = "original" /\ raised) => files' = files
             /\ (fault = "thumb" /\ raised) => files' = files \ {original}
             /\ (original \notin files /\ thumbnail \notin files)
                  => last'.resp.ok /\ files' = files
             /\ last'.resp.ok => C24_AgainNothing(filename, subdir, DB')
             /\ C24_SaveThenDelete]_vars

\* A stored image with its thumbnail was deleted.
C24_Witness ==
    /\ last.op = "delete-image"
    /\ last.resp.ok
    /\ last.req.filename <= seq.files
    /\ seq.files > 0
    /\ files = {}

\* A name that was never stored was deleted, with success.
C24_WitnessAbsent ==
    /\ last.op = "delete-image"
    /\ last.resp.ok
    /\ last.req.filename > seq.files
    /\ files # {}

\* The unlink of the thumbnail raised: False, and the thumbnail is left.
C24_WitnessFault ==
    /\ last.op = "delete-image"
    /\ ~last.resp.ok
    /\ Path(last.req.subdir, last.req.filename, FALSE) \notin files
    /\ Path(last.req.subdir, last.req.filename, TRUE) \in files

----------------------------------------------------------------------------
\* The resolver accepts the token; the user it names.
C25_Accepted(token) == get_current_user(token).status = 200
C25_User(token) == get_current_user(token).user

\* A role gate decided from the role claim of the token and decided from the
\* stored row open for the same roles.
C25_SameGate(token) ==
    \A role \in UserRole :
        (token.claims.role = role) = (users[C25_User(token)].role = role)

(* C25, as claimed: the role claim of every access token the resolver
   accepts is the stored role of the user the token names, and a role gate
   decided from the claim agrees with one decided from the stored row. *)
C25_TokenRoleIsStoredRole ==
    \A token \in BearerInputs :
        C25_Accepted(token)
          => /\ token.claims.role = users[C25_User(token)].role
             /\ C25_SameGate(token)

(* C25, amended: the role claim of every access token that login or refresh
   issued and the resolver accepts is the stored role of the user the token
   names, and a role gate decided from the claim agrees with one decided from
   the stored row. *)
C25_IssuedRoleIsStoredRole ==
    \A token \in IssuedAccess :
        C25_Accepted(token)
          => /\ token.claims.role = users[C25_User(token)].role
             /\ C25_SameGate(token)

\* Two users of different roles each hold an accepted access token carrying
\* their role.
C25_Witness ==
    \E a \in IssuedAccess, b \in IssuedAccess :
        /\ C25_Accepted(a) /\ C25_Accepted(b)
        /\ a.claims.role = "admin" /\ users[C25_User(a)].role = "admin"
        /\ b.claims.role # "admin" /\ users[C25_User(b)].role = b.claims.role

\* The resolver accepts a token made elsewhere with the shipped key: its role
\* claim is admin, the user it names is not.
C25_WitnessForeign ==
    /\ C25_Accepted(ForeignAccess)
    /\ users[C25_User(ForeignAccess)].role # "admin"

----------------------------------------------------------------------------
(* delete_category, create_product and update_product as the requests of
   two workers, each a check followed, in a later step, by its write *)

\* The handler raised an HTTPException before it wrote anything.
Refused(r) == r.resp.status \in {400, 401, 403, 404}

\* delete_category from db.delete(category) on.
delete_category_commit(user, category_id) ==
    Commit(Response(200, <<"Category deleted successfully">>, FALSE, user, NoBody),
           [DB EXCEPT !.categories = Delete(categories, category_id)])

\* create_product from Product(**product_dict) on, for the vendor profile the
\* check found (0: none).
create_product_commit(user, vendor, product_data) ==
    LET product_dict == IF vendor # 0 THEN [vendor_id |-> vendor] @@ product_data
                        ELSE product_data
        db_product == product_dict @@ [main_image |-> 0]
        id == seq.products + 1
    IN  Commit(Response(201, <<>>, FALSE, user, [id |-> id] @@ db_product),
               [DB EXCEPT !.products = Insert(products, id, db_product),
                          !.seq.products = id])

\* update_product from the setattr loop on: the UPDATE carries the columns
\* whose new value differs from the one the check loaded.
update_product_commit(user, product_id, product, product_data) ==
    LET changed == {f \in DOMAIN product_data \cap DOMAIN product :
                      product_data[f] # product[f]}
        update_data == [f \in changed |-> product_data[f]]
    IN  IF product_id \notin DOMAIN products
        THEN Result(InternalServerError, DB)
        ELSE Commit(Response(200, <<>>, FALSE, user,
                             [id |-> product_id]
                               @@ Patch(products[product_id], update_data)),
                    [DB EXCEPT !.products[product_id] =
                                   Patch(products[product_id], update_data)])

\* A request up to the end of its checks: a refusal is answered at once,
\* otherwise the worker goes on to the write.
Check(w, op, req, r) ==
    /\ pending[w] = Free
    /\ IF Refused(r)
       THEN /\ Idle
            /\ last' = Request(op, req, r.resp)
            /\ UNCHANGED pending
       ELSE /\ Begin(w, op, req)
            /\ UNCHANGED last
    /\ UNCHANGED <<users, now, issued, acceptAtExp, marketVars>>

\* The write of the request the worker has in hand.
Write(w, op, r) ==
    /\ pending[w].op = op
    /\ Store(op, pending[w].req, r)
    /\ End(w)

DeleteCategoryCheck(w, token, category_id) ==
    Check(w, "delete-category",
          [token |-> token, id |-> category_id,
           user |-> get_current_active_user(token).user],
          delete_category(token, category_id))

DeleteCategoryWrite(w) ==
    Write(w, "delete-category",
          delete_category_commit(pending[w].req.user, pending[w].req.id))

CreateProductCheck(w, token, category_id) ==
    LET user == get_current_active_user(token).user
    IN  Check(w, "create-product",
              [token |-> token, data |-> ProductCreate("Tomato", category_id),
               user |-> user,
               vendor |-> IF user # 0 /\ users[user].role = "vendor"
                          THEN VendorOf(user) ELSE 0],
              create_product(token, ProductCreate("Tomato", category_id)))

CreateProductWrite(w) ==
    Write(w, "create-product",
          create_product_commit(pending[w].req.user, pending[w].req.vendor,
                                pending[w].req.data))

UpdateProductCheck(w, token, product_id, category_id) ==
    Check(w, "update-product",
          [token |-> token, id |-> product_id, data |-> [category_id |-> category_id],
           user |-> get_current_active_user(token).user,
           product |-> IF product_id \in DOMAIN products THEN products[product_id]
                       ELSE <<>>],
          update_product(token, product_id, [category_id |-> category_id]))

UpdateProductWrite(w) ==
    Write(w, "update-product",
          update_product_commit(pending[w].req.user, pending[w].req.id,
                                pending[w].req.product, pending[w].req.data))

\* Two categories on the shelf of vendor A, with or without a product in the
\* first.
InitShelf ==
    /\ InitStaff
    /\ markets = Insert(EmptyTable, 1, [name |-> "Niji", city |-> "Tokyo",
                                        is_active |-> TRUE, main_image |-> 0])
    /\ vendors = Insert(EmptyTable, 1, [user_id |-> 2, market_id |-> 1,
                                        business_name |-> "Farm",
                                        is_verified |-> FALSE])
    /\ categories = [c \in 1..2 |-> [name |-> IF c = 1 THEN "Fruits" ELSE "Vegetables",
                                     is_active |-> TRUE]]
    /\ \E n \in 0..1 :
          /\ products = [p \in 1..n |-> [vendor_id |-> 1, name |-> "Tomato",
                                         category_id |-> 1, main_image |-> 0]]
          /\ seq = [NoRows EXCEPT !.markets = 1, !.vendors = 1, !.categories = 2,
                                  !.products = n]
    /\ files = {}

NextShelf ==
    \/ \E w \in Workers, t \in Callers, id \in PathIds(seq.categories) :
          DeleteCategoryCheck(w, t, id)
    \/ \E w \in Workers : DeleteCategoryWrite(w)
    \/ \E w \in Workers, t \in Callers, c \in PathIds(seq.categories) :
          CreateProductCheck(w, t, c)
    \/ \E w \in Workers : CreateProductWrite(w)
    \/ \E w \in Workers, t \in Callers, id \in PathIds(seq.products),
          c \in BodyIds(seq.categories) : UpdateProductCheck(w, t, id, c)
    \/ \E w \in Workers : UpdateProductWrite(w)
    \/ Deliver

SpecShelf == InitShelf /\ [][NextShelf]_vars

----------------------------------------------------------------------------
(* C26: in every state, also when the checks and the writes of
   delete_category, create_product and update_product interleave, the
   category_id of every stored product is the id of a stored category. *)
C26_CategoryExists ==
    \A p \in DOMAIN products : products[p].category_id \in DOMAIN categories

\* A delete_category passed its product count, a product was then stored in
\* the category, and the delete failed at its commit: the category is there.
C26_Witness ==
    /\ last.op = "delete-category"
    /\ last.resp.status = 500
    /\ last.req.id \in DOMAIN categories
    /\ \E p \in DOMAIN products : products[p].category_id = last.req.id

\* A vendor's create_product found its category, the category was then
\* deleted, and the insert failed at its commit.
C26_WitnessInsert ==
    /\ last.op = "create-product"
    /\ last.resp.status = 500
    /\ last.req.vendor # 0
    /\ last.req.data.category_id \notin DOMAIN categories

----------------------------------------------------------------------------
(* toggle_user_active_status as the requests of two workers: the row is
   read in one step and the negated flag is written in a later one *)

\* Faulty variant: the write negates the flag as it is stored at the write
\* (UPDATE ... SET is_active = NOT is_active).
toggle_user_active_status_commit_in_place(user, user_id, is_active) ==
    LET db == [users EXCEPT ![user_id].is_active = ~users[user_id].is_active]
    IN  Result(Response(200,
                        <<"User ",
                          IF db[user_id].is_active THEN "activated" ELSE "deactivated",
                          " successfully">>,
                        FALSE, user, NoBody),
               db)

\* toggle_user_active_status from the assignment on: is_active is the flag as
\* the handler read it.
toggle_user_active_status_commit(user, user_id, is_active) ==
    LET db == [users EXCEPT ![user_id].is_active = ~is_active]
    IN  Result(Response(200,
                        <<"User ",
                          IF db[user_id].is_active THEN "activated" ELSE "deactivated",
                          " successfully">>,
                        FALSE, user, NoBody),
               db)

\* The handler up to the read of the row.
ToggleRead(w, token, user_id) ==
    Check(w, "toggle-active",
          [token |-> token, user_id |-> user_id,
           user |-> require_admin(token).user,
           is_active |-> IF user_id \in UserIds THEN users[user_id].is_active
                         ELSE FALSE],
          toggle_user_active_status(token, user_id))

\* The write; the request is logged with the flag as it was stored just
\* before the write.
ToggleWrite(w) ==
    LET req == pending[w].req
        r == toggle_user_active_status_commit(req.user, req.user_id, req.is_active)
    IN  /\ pending[w].op = "toggle-active"
        /\ Idle
        /\ users' = r.db
        /\ last' = Request("toggle-active",
                           req @@ [stored |-> users[req.user_id].is_active], r.resp)
        /\ End(w)
        /\ UNCHANGED <<now, issued, acceptAtExp, marketVars>>

NextToggle ==
    \/ \E w \in Workers, t \in Callers, id \in 1..(Len(users) + 1) :
          ToggleRead(w, t, id)
    \/ \E w \in Workers : ToggleWrite(w)
    \/ Deliver

\* The staff, all active, and no marketplace rows.
InitToggle ==
    /\ InitStaff
    /\ markets = EmptyTable
    /\ vendors = EmptyTable
    /\ categories = EmptyTable
    /\ products = EmptyTable
    /\ seq = NoRows
    /\ files = {}

SpecToggle == InitToggle /\ [][NextToggle]_vars

----------------------------------------------------------------------------
(* C27 *)

\* A toggle that was written: the request log of its write step.
C27_Written ==
    /\ last'.op = "toggle-active"
    /\ "stored" \in DOMAIN last'.req

\* C27: a toggle that got past its checks always reports success and writes
\* the negation of the flag it read, whatever is stored by then (last write
\* wins, no conflict is detected) and leaves the other users alone; when the
\* flag is still stored as it was read, as it is for a toggle that no other
\* toggle overlaps, the stored flag is negated, so that two toggles one after
\* the other restore it.
C27_ToggleLastWriteWins ==
    [][(Idle /\ C27_Written) =>
          LET req == last'.req
          IN  /\ last'.resp.status = 200
              /\ users'[req.user_id].is_active = ~req.is_active
              /\ \A id \in UserIds \ {req.user_id} : users'[id] = users[id]
              /\ (req.stored = req.is_active)
                    => users'[req.user_id].is_active = ~users[req.user_id].is_active]_vars

\* Two overlapping toggles of one user: the second write answers 200 and
\* leaves the flag as the first write left it, negated once relative to what
\* both of them read.
C27_Witness ==
    /\ last.op = "toggle-active"
    /\ "stored" \in DOMAIN last.req
    /\ last.resp.status = 200
    /\ last.req.stored # last.req.is_active
    /\ users[last.req.user_id].is_active = last.req.stored

\* A toggle that did not overlap another one: the flag is negated.
C27_WitnessAlone ==
    /\ last.op = "toggle-active"
    /\ "stored" \in DOMAIN last.req
    /\ last.resp.status = 200
    /\ last.req.stored = last.req.is_active
    /\ users[last.req.user_id].is_active = ~last.req.stored
    /\ \A w \in Workers : pending[w].op = "none"

----------------------------------------------------------------------------
(* delete_product and upload_product_image step by step, one request at a
   time, with the process stopping at any point of a request *)

\* Faulty variant: the files are left to a later step that never runs.
remove_old_image_skipped(main_image, db, fault) == db

\* `if product.main_image: delete_image(product.main_image, "products")`; the
\* result of delete_image is not looked at.
remove_old_image(main_image, db, fault) ==
    IF main_image # 0 THEN delete_image(main_image, "products", db, fault).db
    ELSE db

\* delete_product from db.delete on.
delete_product_commit(user, product_id) ==
    Commit(Response(200, <<"Product deleted successfully">>, FALSE, user, NoBody),
           [DB EXCEPT !.products = Delete(products, product_id)])

\* upload_product_image from the assignment of main_image on.
upload_product_image_commit(user, product_id, filename) ==
    Commit(Response(200, <<"Image uploaded successfully">>, FALSE, user,
                    [filename |-> filename]),
           [DB EXCEPT !.products[product_id].main_image = filename])

\* Worker w is in handler op, just after the step named at.
At(w, op, at) ==
    /\ pending[w].op = op
    /\ pending[w].req.at = at

\* The handler goes on: what it wrote to the upload directory is there, the
\* session has committed nothing yet.
Proceed(w, fields, db) ==
    /\ files' = db.files
    /\ seq' = db.seq
    /\ pending' = [pending EXCEPT ![w].req = fields @@ @]
    /\ UNCHANGED <<users, now, issued, acceptAtExp, last, markets, vendors,
                   categories, products>>

\* The handler ends with response r.resp and the tables of r.db.
Finish(w, r) ==
    /\ Idle
    /\ markets' = r.db.markets
    /\ vendors' = r.db.vendors
    /\ categories' = r.db.categories
    /\ products' = r.db.products
    /\ seq' = r.db.seq
    /\ files' = r.db.files
    /\ last' = Request(pending[w].op, pending[w].req, r.resp)
    /\ End(w)
    /\ UNCHANGED <<users, now, issued, acceptAtExp>>

\* The loaded row's main_image, as the later steps of the handler use it.
LoadedProduct(token, product_id) ==
    [user |-> get_current_active_user(token).user,
     main_image |-> IF product_id \in DOMAIN products
                    THEN products[product_id].main_image ELSE 0,
     at |-> "checked", fault |-> "none", filename |-> 0]

DeleteProductChecked(w, token, product_id) ==
    /\ pending = NoPending
    /\ Check(w, "delete-product",
             [token |-> token, id |-> product_id] @@ LoadedProduct(token, product_id),
             delete_product(token, product_id, "none"))

DeleteProductUnlink(w, fault) ==
    /\ At(w, "delete-product", "checked")
    /\ Proceed(w, [at |-> "unlinked", fault |-> fault],
               remove_old_image(pending[w].req.main_image, DB, fault))

DeleteProductCommit(w) ==
    /\ At(w, "delete-product", "unlinked")
    /\ Finish(w, delete_product_commit(pending[w].req.user, pending[w].req.id))

\* The checks of upload_product_image do not look at the file.
UploadProductImageChecked(w, token, product_id, file) ==
    /\ pending = NoPending
    /\ Check(w, "upload-product-image",
             [token |-> token, id |-> product_id, file |-> file]
                @@ LoadedProduct(token, product_id),
             upload_product_image(token, product_id, Photo, "none"))

UploadProductImageSave(w) ==
    LET saved == save_image(pending[w].req.file, "products", DB)
    IN  /\ At(w, "upload-product-image", "checked")
        /\ IF saved.error # <<>>
           THEN Finish(w, Result(saved.error, saved.db))
           ELSE /\ saved.db.seq.files <= MaxUploads + 1
                /\ Proceed(w, [at |-> "saved", filename |-> saved.filename], saved.db)

UploadProductImageUnlink(w, fault) ==
    /\ At(w, "upload-product-image", "saved")
    /\ Proceed(w, [at |-> "unlinked", fault |-> fault],
               remove_old_image(pending[w].req.main_image, DB, fault))

UploadProductImageCommit(w) ==
    /\ At(w, "upload-product-image", "unlinked")
    /\ Finish(w, upload_product_image_commit(pending[w].req.user, pending[w].req.id,
                                             pending[w].req.filename))

\* The process stops during a request: no further statement of the handler
\* runs, the client gets no response, the session's uncommitted changes are
\* gone and the upload directory stays as it is.
Stop(w) ==
    /\ pending[w] # Free
    /\ Idle
    /\ last' = Request(pending[w].op, pending[w].req, NoRequest.resp)
    /\ End(w)
    /\ UNCHANGED <<users, now, issued, acceptAtExp, marketVars>>

InitCrash ==
    /\ InitStaff
    /\ markets = Insert(EmptyTable, 1, [name |-> "Niji", city |-> "Tokyo",
                                        is_active |-> TRUE, main_image |-> 0])
    /\ vendors = Insert(EmptyTable, 1, [user_id |-> 2, market_id |-> 1,
                                        business_name |-> "Farm",
                                        is_verified |-> FALSE])
    /\ categories = Insert(EmptyTable, 1, [name |-> "Fruits", is_active |-> TRUE])
    /\ products = Insert(EmptyTable, 1, [vendor_id |-> 1, name |-> "Tomato",
                                         category_id |-> 1, main_image |-> 0])
    /\ seq = [NoRows EXCEPT !.markets = 1, !.vendors = 1, !.categories = 1,
                            !.products = 1]
    /\ files = {}

NextCrash ==
    \/ \E w \in Workers, t \in Callers, id \in PathIds(seq.products) :
          DeleteProductChecked(w, t, id)
    \/ \E w \in Workers, x \in UnlinkFaults : DeleteProductUnlink(w, x)
    \/ \E w \in Workers : DeleteProductCommit(w)
    \/ \E w \in Workers, t \in Callers, id \in PathIds(seq.products),
          f \in {Photo, TextFile} : UploadProductImageChecked(w, t, id, f)
    \/ \E w \in Workers : UploadProductImageSave(w)
    \/ \E w \in Workers, x \in UnlinkFaults : UploadProductImageUnlink(w, x)
    \/ \E w \in Workers : UploadProductImageCommit(w)
    \/ \E w \in Workers : Stop(w)
    \/ Deliver

SpecCrash == InitCrash /\ [][NextCrash]_vars

----------------------------------------------------------------------------
(* C28 *)

\* Product image files that no product row names.
C28_Orphans ==
    {f \in files : f.subdir = "products"
                   /\ \A p \in DOMAIN products : products[p].main_image # f.name}

\* Product rows whose main_image names an original that is not stored.
C28_Dangling ==
    {p \in DOMAIN products :
        /\ products[p].main_image # 0
        /\ Path("products", products[p].main_image, FALSE) \notin files}

\* The step is the stop of handler op after its steps in ats.
C28_Stopped(op, ats) ==
    /\ Idle
    /\ last'.op = op
    /\ last'.resp.status = 0
    /\ last'.req.at \in ats

C28_WitnessOrphan ==
    /\ last.op = "upload-product-image"
    /\ last.resp.status = 0
    /\ last.req.at = "saved"
    /\ Path("products", last.req.filename, FALSE) \in C28_Orphans
    /\ Path("products", last.req.filename, TRUE) \in C28_Orphans

\* An orphan is never the work of a stopped delete_product: it takes a stopped
\* upload_product_image or an unlink that failed.
C28_StoppedDeleteLeavesNoOrphan ==
    [][C28_Stopped("delete-product", {"checked", "unlinked"})
          => C28_Orphans' = C28_Orphans]_vars

----------------------------------------------------------------------------
(* upload_market_image *)

\* upload_market_image is a plain def and calls save_image, a coroutine
\* function, without await: filename is the coroutine object, none of
\* save_image's statements runs, and the commit has to bind that object to
\* markets.main_image.
upload_market_image(token, market_id, file, fault) ==
    LET r == require_admin(token)
        filename == Coroutine
        db1 == IF markets[market_id].main_image # 0
               THEN delete_image(markets[market_id].main_image, "markets", DB, fault).db
               ELSE DB
    IN  IF r.status # 200 THEN Result(r, DB)
        ELSE IF market_id \notin DOMAIN markets
             THEN Result(Response(404, <<"Market not found">>, FALSE, r.user, NoBody), DB)
        ELSE Commit(Response(200, <<"Image uploaded successfully">>, FALSE, r.user,
                             [filename |-> filename]),
                    [db1 EXCEPT !.markets[market_id].main_image = filename])

UploadMarketImage(token, market_id, file, fault) ==
    Apply("upload-market-image",
          [token |-> token, id |-> market_id, file |-> file, fault |-> fault],
          upload_market_image(token, market_id, file, fault))

\* The unlink faults that can matter to an upload for market_id.
MarketUnlinks(market_id) ==
    IF market_id \in DOMAIN markets /\ markets[market_id].main_image # 0
    THEN UnlinkFaults ELSE {"none"}

NextGallery ==
    \/ \E id \in PathIds(seq.markets) : GetMarket(id)
    \/ \E t \in Callers, n \in MarketNames : CreateMarket(t, MarketCreate(n, "Tokyo"))
    \/ \E t \in Callers, id \in PathIds(seq.markets) : DeleteMarket(t, id)
    \/ \E t \in Callers, id \in PathIds(seq.markets), f \in {Photo, TextFile} :
          \E x \in MarketUnlinks(id) : UploadMarketImage(t, id, f, x)
    \/ Deliver

SpecGallery == InitVendors /\ [][NextGallery]_vars

----------------------------------------------------------------------------
(* C29 *)

\* The upload is one that nothing makes fail: an admin's, for an existing
\* market, of a file that save_image accepts and can store.
C29_CanSucceed ==
    /\ require_admin(last'.req.token).status = 200
    /\ last'.req.id \in DOMAIN markets
    /\ save_image(last'.req.file, "markets", DB).error = <<>>
    /\ last'.req.file.decodes

\* The files of market image name.
C29_Files(name) == {Path("markets", name, FALSE), Path("markets", name, TRUE)}

(* C29: an upload_market_image by an admin for an existing market that nothing
   makes fail succeeds: it answers 200 with the stored file's name, the
   original and the thumbnail of that name are stored, the market's
   main_image is that name and the files of the previous main_image, if there
   was one, are removed; an upload that does not succeed leaves the market's
   main_image and its previous image files unchanged. *)
C29_UploadMarketImage ==
    [][Serves({"upload-market-image"}) =>
          LET id == last'.req.id
              filename == last'.resp.body.filename
          IN  /\ C29_CanSucceed => last'.resp.status = 200
              /\ last'.resp.status = 200
                    => /\ C29_Files(filename) \subseteq files'
                       /\ C29_Files(filename) \cap files = {}
                       /\ markets'[id].main_image = filename
                       /\ markets[id].main_image # 0
                             => C29_Files(markets[id].main_image) \cap files' = {}
              /\ last'.resp.status # 200
                    => /\ markets' = markets
                       /\ files' = files]_vars

\* An upload that does not succeed changes no market row and no file.
C29_FailureChangesNothing ==
    [][(Serves({"upload-market-image"}) /\ last'.resp.status # 200)
          => markets' = markets /\ files' = files]_vars

\* No upload_market_image succeeds.
C29_NeverSucceeds ==
    [][Serves({"upload-market-image"}) => last'.resp.status # 200]_vars

\* An admin's upload of an acceptable image for an existing market has been
\* answered 500, with nothing stored and main_image as it was.
C29_WitnessServerError ==
    /\ last.op = "upload-market-image"
    /\ last.resp.status = 500
    /\ require_admin(last.req.token).status = 200
    /\ last.req.id \in DOMAIN markets
    /\ validate_image_file(last.req.file)
    /\ markets[last.req.id].main_image = 0
    /\ files = {}

----------------------------------------------------------------------------
(* C30 *)

\* The status login answers user uid trying password.
C30_Login(uid, password) == login_user(users[uid].email, password).status

\* The issued refresh tokens that refresh accepts.
C30_Refreshable ==
    {t \in IssuedTokens : t.kind = "refresh" /\ refresh_access_token(t).status = 200}

\* What a change-password request of an active caller does to the table, and
\* what it leaves to the tokens issued before it.
C30_Change(uid) ==
    LET req == last'.req
    IN  IF verify_password(req.current_password, users[uid].hashed_password)
        THEN /\ last'.resp.status = 200
             /\ users' = [users EXCEPT ![uid].hashed_password =
                             get_password_hash(req.new_password)]
             /\ C10_Accepted \subseteq C10_Accepted'
             /\ C30_Refreshable \subseteq C30_Refreshable'
        ELSE /\ last'.resp.status = 400
             /\ users' = users

\* C30 as claimed: change_password replaces the stored hash only when the
\* current password verifies, and answers 400 with the hash unchanged
\* otherwise; after a successful change login with the old password is
\* answered 401 and login with the new password succeeds, and the access
\* and refresh tokens issued before the change are still accepted.
C30_ChangePassword ==
    [][Serves({"change-password"}) =>
          \A uid \in DOMAIN users :
             (/\ get_current_active_user(last'.req.token).status = 200
              /\ get_current_active_user(last'.req.token).user = uid)
             => /\ C30_Change(uid)
                /\ last'.resp.status = 200
                      => \A old \in {last'.req.current_password},
                            new \in {last'.req.new_password} :
                            /\ C30_Login(uid, old)' = 401
                            /\ C30_Login(uid, new)' = 200]_vars

\* C30, amended: as claimed, with login after a successful change answering
\* 200 to the new password and 401 to every other one, the old password
\* included when the new one differs from it.
C30_ChangePasswordToAnother ==
    [][Serves({"change-password"}) =>
          \A uid \in DOMAIN users :
             (/\ get_current_active_user(last'.req.token).status = 200
              /\ get_current_active_user(last'.req.token).user = uid)
             => /\ C30_Change(uid)
                /\ last'.resp.status = 200
                      => \A p \in Passwords, new \in {last'.req.new_password} :
                            C30_Login(uid, p)' = IF p = new THEN 200 ELSE 401]_vars

\* A password has been changed to another one: login refuses the old
\* password and accepts the new one, and an access token and a refresh token
\* of that user, both issued before, are accepted.
C30_Witness ==
    /\ last.op = "change-password"
    /\ last.resp.status = 200
    /\ last.req.current_password # last.req.new_password
    /\ C30_Login(last.resp.user, last.req.current_password) = 401
    /\ C30_Login(last.resp.user, last.req.new_password) = 200
    /\ \E t \in C10_Accepted : t.claims.user_id = last.resp.user
    /\ \E t \in C30_Refreshable : t.claims.user_id = last.resp.user

\* A wrong current password has been answered 400.
C30_WitnessRefused ==
    /\ last.op = "change-password"
    /\ last.resp.status = 400
    /\ last.resp.detail = <<"Incorrect current password">>

\* A password has been changed to itself, and login accepts the old password.
C30_WitnessSame ==
    /\ last.op = "change-password"
    /\ last.resp.status = 200
    /\ last.req.current_password = last.req.new_password
    /\ C30_Login(last.resp.user, last.req.current_password) = 200

====
